---- MODULE Spec2Model ----
(***************************************************************************)
(* Model of the Jira ticket adapter (ticket/jira_provider.go).             *)
(*                                                                         *)
(* Two specifications share the module:                                    *)
(*   SpecJQL  - the query compiler (buildJQL, escapeJQL) as pure functions *)
(*              over strings modelled as sequences of characters;          *)
(*   Spec     - the provider facade (Create, Get, Query, Update,           *)
(*              transitionIssue) as a state machine whose steps are the    *)
(*              HTTP round trips, the upstream answer being an input.      *)
(***************************************************************************)
EXTENDS Integers, Sequences, FiniteSets, TLC

VARIABLES
    q,          \* buildJQL: the TicketQuery argument
    projectKey, \* buildJQL: the projectKey argument
    clauses,    \* buildJQL: the local slice `clauses` when the function returns
    jql,        \* buildJQL: the returned string
    jpc,        \* "input" before buildJQL ran, "built" after
    cfg,        \* JiraProvider.cfg
    pc,         \* position of the running provider call
    call,       \* the running call: operation and arguments
    payload,    \* Create/Update: payload["fields"]
    getId,      \* the id argument of the pending p.Get
    transitionID, \* transitionIssue: the local transitionID
    sent,       \* requests handed to client.Do during the call, in order
    answers,    \* what client.Do returned for each of them
    ret,        \* the values the call returns
    inIssue,    \* convertJiraIssue: the jiraIssue argument
    outTicket,  \* convertJiraIssue: the returned schema.Ticket
    npc,        \* "input" before convertJiraIssue ran, "converted" after
    rawCfg,     \* New: the cfg map[string]any argument
    parsed,     \* New: the local `parsed`, what parseConfig returned
    newRet,     \* New: the returned provider and error
    cpc,        \* "input" before New ran, "returned" after
    provider,   \* plugin: the package variable `provider`
    rpcReq,     \* plugin: the request frame decoded last
    written,    \* plugin: the response frames written to stdout, in order
    decoded,    \* plugin: how many request frames were decoded
    ppc         \* plugin: "decode", "dispatch" or "exited"

jqlVars == <<q, projectKey, clauses, jql, jpc>>

provVars == <<cfg, pc, call, payload, getId, transitionID, sent, answers, ret>>

normVars == <<inIssue, outTicket, npc>>

plugVars == <<provider, rpcReq, written, decoded, ppc>>

confVars == <<rawCfg, parsed, newRet, cpc>>

vars == <<q, projectKey, clauses, jql, jpc,
          cfg, pc, call, payload, getId, transitionID, sent, answers, ret,
          inIssue, outTicket, npc,
          rawCfg, parsed, newRet, cpc,
          provider, rpcReq, written, decoded, ppc>>

----------------------------------------------------------------------------
(* Bounds *)

MaxStrLen == 3

\* content blocks of a description, text nodes of a block
MaxBlocks == 2

MaxNodes == 2
MaxListLen == 2

----------------------------------------------------------------------------
(* Strings are sequences of one-character strings. *)

DQ == "\""
BS == "\\"

Chars == {"a", DQ, BS}

RECURSIVE StrsOfLen(_)
StrsOfLen(n) ==
    IF n = 0 THEN {<<>>}
    ELSE {<<c>> \o s : c \in Chars, s \in StrsOfLen(n - 1)}

Strs(n) == UNION {StrsOfLen(k) : k \in 0..n}

RECURSIVE ListsOfLen(_, _)
ListsOfLen(S, n) ==
    IF n = 0 THEN {<<>>}
    ELSE {<<x>> \o l : x \in S, l \in ListsOfLen(S, n - 1)}

Lists(S, n) == UNION {ListsOfLen(S, k) : k \in 0..n}

HasPrefixAt(s, i, p) ==
    /\ i + Len(p) - 1 <= Len(s)
    /\ \A k \in 1..Len(p) : s[i + k - 1] = p[k]

HasPrefix(s, p) == HasPrefixAt(s, 1, p)

HasSuffix(s, p) == Len(s) >= Len(p) /\ HasPrefixAt(s, Len(s) - Len(p) + 1, p)

\* strings.ReplaceAll for a non-empty `old`: scan left to right, replace each
\* non-overlapping occurrence.
RECURSIVE ReplaceFrom(_, _, _, _)
ReplaceFrom(s, i, old, new) ==
    IF i > Len(s) THEN <<>>
    ELSE IF HasPrefixAt(s, i, old)
         THEN new \o ReplaceFrom(s, i + Len(old), old, new)
         ELSE <<s[i]>> \o ReplaceFrom(s, i + 1, old, new)

ReplaceAll(s, old, new) == ReplaceFrom(s, 1, old, new)

\* strings.Join
RECURSIVE Join(_, _)
Join(parts, sep) ==
    IF Len(parts) = 0 THEN <<>>
    ELSE IF Len(parts) = 1 THEN parts[1]
    ELSE parts[1] \o sep \o Join(Tail(parts), sep)

----------------------------------------------------------------------------
(* String literals of buildJQL *)

LitProject == <<"p","r","o","j","e","c","t"," ","="," ">>
LitText == <<"t","e","x","t"," ","~"," ",DQ>>
LitStatus == <<"s","t","a","t","u","s"," ","I","N"," ","(">>
LitAssignee == <<"a","s","s","i","g","n","e","e"," ","I","N"," ","(">>
LitReporter == <<"r","e","p","o","r","t","e","r"," ","="," ",DQ>>
LitAnd == <<" ","A","N","D"," ">>
LitOrder == <<" ","O","R","D","E","R"," ","B","Y"," ","k","e","y"," ","D","E","S","C">>
LitComma == <<",">>
LitQuote == <<DQ>>
LitClose == <<")">>

----------------------------------------------------------------------------
(* escapeJQL and buildJQL *)

\* strings.Replace(s, old, new, 1): only the first occurrence
RECURSIVE ReplaceFirstFrom(_, _, _, _)
ReplaceFirstFrom(s, i, old, new) ==
    IF i > Len(s) THEN <<>>
    ELSE IF HasPrefixAt(s, i, old)
         THEN new \o SubSeq(s, i + Len(old), Len(s))
         ELSE <<s[i]>> \o ReplaceFirstFrom(s, i + 1, old, new)

escapeJQL_firstOnly(s) == ReplaceFirstFrom(s, 1, <<DQ>>, <<BS, DQ>>)

escapeJQL_skipEscaped(s) ==
    IF \E i \in 1..Len(s) : s[i] = DQ /\ (i = 1 \/ s[i - 1] # BS)
    THEN ReplaceAll(s, <<DQ>>, <<BS, DQ>>)
    ELSE s

escapeJQL(s) == ReplaceAll(s, <<DQ>>, <<BS, DQ>>)

\* fmt.Sprintf("\"%s\"", escapeJQL(x)) for every element, in order
QuotedList(xs) == [i \in 1..Len(xs) |-> LitQuote \o escapeJQL(xs[i]) \o LitQuote]

buildClauses_swapped(query, key) ==
    <<LitProject \o key>>
    \o (IF query.Query # <<>>
        THEN <<LitText \o escapeJQL(query.Query) \o LitQuote>> ELSE <<>>)
    \o (IF Len(query.Assignees) > 0
        THEN <<LitAssignee \o Join(QuotedList(query.Assignees), LitComma) \o LitClose>>
        ELSE <<>>)
    \o (IF Len(query.Statuses) > 0
        THEN <<LitStatus \o Join(QuotedList(query.Statuses), LitComma) \o LitClose>>
        ELSE <<>>)
    \o (IF query.Reporter # <<>>
        THEN <<LitReporter \o escapeJQL(query.Reporter) \o LitQuote>> ELSE <<>>)

buildClauses_emptyStatus(query, key) ==
    <<LitProject \o key>>
    \o (IF query.Query # <<>>
        THEN <<LitText \o escapeJQL(query.Query) \o LitQuote>> ELSE <<>>)
    \o <<LitStatus \o Join(QuotedList(query.Statuses), LitComma) \o LitClose>>
    \o (IF Len(query.Assignees) > 0
        THEN <<LitAssignee \o Join(QuotedList(query.Assignees), LitComma) \o LitClose>>
        ELSE <<>>)
    \o (IF query.Reporter # <<>>
        THEN <<LitReporter \o escapeJQL(query.Reporter) \o LitQuote>> ELSE <<>>)

\* the slice `clauses` as built by lines 304-335
buildClauses(query, key) ==
    <<LitProject \o key>>
    \o (IF query.Query # <<>>
        THEN <<LitText \o escapeJQL(query.Query) \o LitQuote>> ELSE <<>>)
    \o (IF Len(query.Statuses) > 0
        THEN <<LitStatus \o Join(QuotedList(query.Statuses), LitComma) \o LitClose>>
        ELSE <<>>)
    \o (IF Len(query.Assignees) > 0
        THEN <<LitAssignee \o Join(QuotedList(query.Assignees), LitComma) \o LitClose>>
        ELSE <<>>)
    \o (IF query.Reporter # <<>>
        THEN <<LitReporter \o escapeJQL(query.Reporter) \o LitQuote>> ELSE <<>>)

buildJQL(query, key) == Join(buildClauses(query, key), LitAnd) \o LitOrder

----------------------------------------------------------------------------
(* Values exchanged with the upstream API.  Go pointers and optional       *)
(* values are sequences of length 0 (nil) or 1.                            *)

StatusOK == 200
StatusCreated == 201
StatusNoContent == 204
StatusNotFound == 404
StatusInternalServerError == 500

StatusCodes == {StatusOK, StatusCreated, StatusNoContent, StatusNotFound,
                StatusInternalServerError}

\* a JSON value of a payload, of the extra-fields dictionary or of the
\* metadata map: a type tag, a scalar and a list of tagged elements
Value(t, s, l) == [t |-> t, s |-> s, l |-> l]
Elem(t, s, i) == [t |-> t, s |-> s, i |-> i]

StringValue(s) == Value("string", s, <<>>)
NameObject(s) == Value("{name}", s, <<>>)

\* the rich-text document of lines 112-126 and 360-374 around a text
Document(text) == Value("doc/1/paragraph/text", text, <<>>)

\* keys a field payload or an extra-fields dictionary can hold
FieldKeys == {"project", "summary", "issuetype", "description", "assignee",
              "priority", "labels", "components", "status", "customfield_1"}

NoFields == [k \in FieldKeys |-> <<>>]

NumFields(fields) == Cardinality({k \in FieldKeys : fields[k] # <<>>})

\* time.Parse(time.RFC3339, s) on the timestamps the model knows; an instant
\* is its number of hours since the Unix epoch
ParseRFC3339(s) ==
    IF s = "2025-11-21T10:00:00Z" THEN <<489922>>
    ELSE IF s = "2025-11-21T11:00:00+01:00" THEN <<489922>>
    ELSE IF s = "2025-11-22T10:00:00Z" THEN <<489946>>
    ELSE <<>>

\* time.Time{}: 0001-01-01T00:00:00Z
ZeroTime == -17259888

MetadataKeys == {"source", "assignee_name", "reporter_name", "priority",
                 "priority_id", "issue_type", "issue_type_id",
                 "issue_type_description", "labels", "components",
                 "component_details"}

NilMetadata == [k \in MetadataKeys |-> <<>>]

\* schema.Ticket{}
ZeroTicket ==
    [ID |-> "", Key |-> "", Title |-> "", Description |-> <<>>, Status |-> "",
     Assignees |-> <<>>, Reporter |-> "", CreatedAt |-> ZeroTime,
     UpdatedAt |-> ZeroTime, Metadata |-> NilMetadata]

KeepText_always(text) == TRUE

\* line 613: a text node is kept when its text is not empty
KeepText(text) == text # <<>>

\* descParts of lines 609-616: every non-empty text, in document order
RECURSIVE TextsOf(_)
TextsOf(block) ==
    IF Len(block) = 0 THEN <<>>
    ELSE (IF KeepText(block[1]) THEN <<block[1]>> ELSE <<>>) \o TextsOf(Tail(block))

RECURSIVE DescParts(_)
DescParts(blocks) ==
    IF Len(blocks) = 0 THEN <<>>
    ELSE TextsOf(blocks[1]) \o DescParts(Tail(blocks))

LabelsEntry_always(issue) ==
    <<Value("[]string", "",
            [i \in 1..Len(issue.Labels) |-> Elem("string", issue.Labels[i], "")])>>

\* lines 644-646: the labels key is set for a non-empty label list only
LabelsEntry(issue) ==
    IF Len(issue.Labels) > 0
    THEN <<Value("[]string", "",
                 [i \in 1..Len(issue.Labels) |-> Elem("string", issue.Labels[i], "")])>>
    ELSE <<>>

AssigneesOf_reporterToo(issue) ==
    (IF issue.Assignee # <<>> THEN <<issue.Assignee[1].AccountID>> ELSE <<>>)
    \o (IF issue.Reporter # <<>> THEN <<issue.Reporter[1].AccountID>> ELSE <<>>)

\* lines 620-621: ticket.Assignees
AssigneesOf(issue) ==
    IF issue.Assignee # <<>> THEN <<issue.Assignee[1].AccountID>> ELSE <<>>

convertJiraIssue(issue, source) ==
    LET md0 == [NilMetadata EXCEPT
                  !["source"] = <<StringValue(source)>>,
                  !["assignee_name"] =
                      IF issue.Assignee # <<>>
                      THEN <<StringValue(issue.Assignee[1].DisplayName)>> ELSE <<>>,
                  !["reporter_name"] =
                      IF issue.Reporter # <<>>
                      THEN <<StringValue(issue.Reporter[1].DisplayName)>> ELSE <<>>,
                  !["priority"] =
                      IF issue.Priority # <<>>
                      THEN <<StringValue(issue.Priority[1].Name)>> ELSE <<>>,
                  !["priority_id"] =
                      IF issue.Priority # <<>>
                      THEN <<StringValue(issue.Priority[1].ID)>> ELSE <<>>,
                  !["issue_type"] = <<StringValue(issue.IssueType.Name)>>,
                  !["issue_type_id"] = <<StringValue(issue.IssueType.ID)>>,
                  !["issue_type_description"] =
                      IF issue.IssueType.Description # ""
                      THEN <<StringValue(issue.IssueType.Description)>> ELSE <<>>,
                  !["labels"] = LabelsEntry(issue),
                  !["components"] =
                      IF Len(issue.Components) > 0
                      THEN <<Value("[]string", "",
                                   [i \in 1..Len(issue.Components) |->
                                       Elem("string", issue.Components[i].Name, "")])>>
                      ELSE <<>>,
                  !["component_details"] =
                      IF Len(issue.Components) > 0
                      THEN <<Value("[]{id,name}", "",
                                   [i \in 1..Len(issue.Components) |->
                                       Elem("{id,name}", issue.Components[i].Name,
                                            issue.Components[i].ID)])>>
                      ELSE <<>>]
        created == ParseRFC3339(issue.Created)
        updated == ParseRFC3339(issue.Updated)
    IN [ID |-> issue.ID,
        Key |-> issue.Key,
        Title |-> issue.Summary,
        Description |-> Join(DescParts(issue.Description), <<" ">>),
        Status |-> issue.Status,
        Assignees |-> AssigneesOf(issue),
        Reporter |-> IF issue.Reporter # <<>>
                     THEN issue.Reporter[1].AccountID ELSE "",
        CreatedAt |-> IF created # <<>> THEN created[1] ELSE ZeroTime,
        UpdatedAt |-> IF updated # <<>> THEN updated[1] ELSE ZeroTime,
        Metadata |-> md0]

\* jiraIssue{}: what decoding "{}" gives
ZeroIssue ==
    [ID |-> "", Key |-> "", Summary |-> "", Description |-> <<>>, Status |-> "",
     Priority |-> <<>>, IssueType |-> [ID |-> "", Name |-> "", Description |-> ""],
     Labels |-> <<>>, Components |-> <<>>, Assignee |-> <<>>, Reporter |-> <<>>,
     Created |-> "", Updated |-> ""]

\* a fully populated issue, as the test server of TestGet returns
FullIssue ==
    [ID |-> "10001", Key |-> "PROJ-1", Summary |-> "Test ticket",
     Description |-> << <<<<"F">>, <<>>, <<"S">>>>, <<>>, <<<<"T">>>> >>,
     Status |-> "In Progress",
     Priority |-> <<[ID |-> "2", Name |-> "High"]>>,
     IssueType |-> [ID |-> "10", Name |-> "Bug", Description |-> "A problem"],
     Labels |-> <<"backend", "urgent">>,
     Components |-> <<[ID |-> "7", Name |-> "API"], [ID |-> "8", Name |-> "DB"]>>,
     Assignee |-> <<[AccountID |-> "alice", DisplayName |-> "Alice"]>>,
     Reporter |-> <<[AccountID |-> "bob", DisplayName |-> "Bob"]>>,
     Created |-> "2025-11-21T10:00:00Z", Updated |-> "not a time"]

Issues == {ZeroIssue, FullIssue}

\* a response body: not JSON at all, or the JSON document of one endpoint
Body(kind, k, issue, issues, transitions) ==
    [kind |-> kind, key |-> k, issue |-> issue, issues |-> issues,
     transitions |-> transitions]

EmptyBody == Body("empty", "", ZeroIssue, <<>>, <<>>)
GarbageBody == Body("garbage", "", ZeroIssue, <<>>, <<>>)
CreatedBody(k) == Body("created", k, ZeroIssue, <<>>, <<>>)
IssueBody(issue) == Body("issue", "", issue, <<>>, <<>>)
SearchBody(issues) == Body("search", "", ZeroIssue, issues, <<>>)
TransitionsBody(ts) == Body("transitions", "", ZeroIssue, <<>>, ts)

\* json.NewDecoder(resp.Body).Decode succeeds on a JSON document
Decodable(body) == body.kind \notin {"empty", "garbage"}

\* what client.Do returns: a transport error, or a status and a body
TransportFailure == [transport |-> TRUE, status |-> 0, body |-> EmptyBody]
Response(status, body) == [transport |-> FALSE, status |-> status, body |-> body]

Responses(bodies) ==
    {TransportFailure}
    \cup {Response(st, b) : st \in StatusCodes, b \in {EmptyBody, GarbageBody} \cup bodies}

----------------------------------------------------------------------------
(* Errors: the chain of wrapped errors, outermost first; nil is <<>>. *)

ErrLayer(msg, status, body, sentinel) ==
    [msg |-> msg, status |-> status, body |-> body, sentinel |-> sentinel,
     arg |-> <<>>]

NilErr == <<>>

\* var errNotFound = errors.New("ticket not found")
errNotFound == <<ErrLayer("ticket not found", 0, EmptyBody, TRUE)>>

\* the error client.Do, json.Marshal, Decode or NewRequest returned
Cause(what) == <<ErrLayer(what, 0, EmptyBody, FALSE)>>

\* fmt.Errorf(msg + ": %w", err)
Wrap(msg, err) == <<ErrLayer(msg, 0, EmptyBody, FALSE)>> \o err

\* fmt.Errorf(msg + ": %d %s", resp.StatusCode, string(bodyBytes))
StatusErr(msg, resp) == <<ErrLayer(msg, resp.status, resp.body, FALSE)>>

\* err == errNotFound
IsErrNotFound(err) == err = errNotFound

----------------------------------------------------------------------------
(* Payload construction of Create and Update *)

IsStringList(v) == v.t = "[]string"
IsAnyList(v) == v.t = "[]any"

CoerceLabels_keepsRaw(l) ==
    Value("[]string", "", [i \in 1..Len(l) |-> Elem("string", l[i].s, "")])

\* lines 142-147 and 397-402: a non-string element leaves the zero string
CoerceLabels(l) ==
    Value("[]string", "",
          [i \in 1..Len(l) |-> Elem("string", IF l[i].t = "string" THEN l[i].s ELSE "", "")])

\* lines 153-156 and 408-411
ComponentObjs(l) ==
    Value("[]{name}", "", [i \in 1..Len(l) |-> Elem("{name}", l[i].s, "")])

\* lines 159-164 and 414-419: a non-string element leaves a nil map
CoerceComponentObjs(l) ==
    Value("[]{name}", "",
          [i \in 1..Len(l) |->
              IF l[i].t = "string" THEN Elem("{name}", l[i].s, "") ELSE Elem("nil", "", "")])

\* lines 132-136 and 387-391
PriorityEntry(extra, old) ==
    IF extra["priority"] # <<>>
       /\ extra["priority"][1].t = "string"
       /\ extra["priority"][1].s # ""
    THEN <<NameObject(extra["priority"][1].s)>>
    ELSE old

CopyOthers_keepsExisting(fields, extra) ==
    [k \in FieldKeys |->
        IF k \notin {"priority", "labels", "components"} /\ fields[k] = <<>>
        THEN extra[k]
        ELSE fields[k]]

\* lines 169-173 and 424-428
CopyOthers(fields, extra) ==
    [k \in FieldKeys |->
        IF k \notin {"priority", "labels", "components"} /\ extra[k] # <<>>
        THEN extra[k]
        ELSE fields[k]]

\* payload["fields"] of Create, lines 99-174
createFields(in, config) ==
    LET f0 == [NoFields EXCEPT
                 !["project"] = <<Value("{key}", config.ProjectKey, <<>>)>>,
                 !["summary"] = <<StringValue(in.Title)>>,
                 !["issuetype"] = <<NameObject(config.DefaultIssueType)>>,
                 !["description"] =
                     IF in.Description # "" THEN <<Document(in.Description)>> ELSE <<>>]
    IN IF in.Fields = <<>> THEN f0
       ELSE LET extra == in.Fields[1]
                lab == extra["labels"]
                comp == extra["components"]
                f1 == [f0 EXCEPT
                         !["priority"] = PriorityEntry(extra, @),
                         !["labels"] =
                             IF lab # <<>> /\ IsStringList(lab[1]) /\ Len(lab[1].l) > 0
                             THEN lab
                             ELSE IF lab # <<>> /\ IsAnyList(lab[1]) /\ Len(lab[1].l) > 0
                             THEN <<CoerceLabels(lab[1].l)>>
                             ELSE @,
                         !["components"] =
                             IF comp # <<>> /\ IsStringList(comp[1]) /\ Len(comp[1].l) > 0
                             THEN <<ComponentObjs(comp[1].l)>>
                             ELSE IF comp # <<>> /\ IsAnyList(comp[1]) /\ Len(comp[1].l) > 0
                             THEN <<CoerceComponentObjs(comp[1].l)>>
                             ELSE @]
            IN CopyOthers(f1, extra)

AssigneeEntry_emptyUnassigns(in) ==
    IF in.Assignees # <<>> /\ Len(in.Assignees[1]) > 0
    THEN <<Value("{accountId}", in.Assignees[1][1], <<>>)>>
    ELSE IF in.Assignees # <<>>
    THEN <<Value("{accountId}", "", <<>>)>>
    ELSE <<>>

AssigneeEntry_last(in) ==
    IF in.Assignees # <<>> /\ Len(in.Assignees[1]) > 0
    THEN <<Value("{accountId}", in.Assignees[1][Len(in.Assignees[1])], <<>>)>>
    ELSE <<>>

\* lines 377-382: Jira supports a single assignee, the first one is used
AssigneeEntry(in) ==
    IF in.Assignees # <<>> /\ Len(in.Assignees[1]) > 0
    THEN <<Value("{accountId}", in.Assignees[1][1], <<>>)>>
    ELSE <<>>

\* payload["fields"] of Update, lines 351-429
updateFields(in) ==
    LET f0 == [NoFields EXCEPT
                 !["summary"] =
                     IF in.Title # <<>> THEN <<StringValue(in.Title[1])>> ELSE <<>>,
                 !["description"] =
                     IF in.Description # <<>>
                     THEN <<Document(in.Description[1])>> ELSE <<>>,
                 !["assignee"] = AssigneeEntry(in)]
    IN IF in.Fields = <<>> THEN f0
       ELSE LET extra == in.Fields[1]
                lab == extra["labels"]
                comp == extra["components"]
                f1 == [f0 EXCEPT
                         !["priority"] = PriorityEntry(extra, @),
                         !["labels"] =
                             IF lab # <<>> /\ IsStringList(lab[1])
                             THEN lab
                             ELSE IF lab # <<>> /\ IsAnyList(lab[1])
                             THEN <<CoerceLabels(lab[1].l)>>
                             ELSE @,
                         !["components"] =
                             IF comp # <<>> /\ IsStringList(comp[1])
                             THEN <<ComponentObjs(comp[1].l)>>
                             ELSE IF comp # <<>> /\ IsAnyList(comp[1])
                             THEN <<CoerceComponentObjs(comp[1].l)>>
                             ELSE @]
            IN CopyOthers(f1, extra)

\* json.Marshal fails on a value it cannot encode (a func, a channel)
Marshalable(fields) ==
    \A k \in FieldKeys :
        fields[k] # <<>> =>
            /\ fields[k][1].t # "func"
            /\ \A i \in 1..Len(fields[k][1].l) : fields[k][1].l[i].t # "func"

\* url.Parse rejects an invalid percent escape
BadURLPart == "%zz"

\* http.NewRequestWithContext succeeds on p.cfg.APIURL + path + id
ValidURL(base, id) == base # BadURLPart /\ id # BadURLPart

----------------------------------------------------------------------------
(* transitionIssue: the choice of the transition *)

\* unicode simple case folding on the letters the model uses
FoldChar(c) ==
    IF c = "D" THEN "d"
    ELSE IF c = "O" THEN "o"
    ELSE IF c = "N" THEN "n"
    ELSE IF c = "E" THEN "e"
    ELSE c

\* strings.EqualFold
EqualFold(a, b) ==
    /\ Len(a) = Len(b)
    /\ \A i \in 1..Len(a) : FoldChar(a[i]) = FoldChar(b[i])

\* lines 508-515: the ID of the first transition leading to targetStatus,
\* the zero string when there is none
RECURSIVE findTransition(_, _)
findTransition(transitions, targetStatus) ==
    IF Len(transitions) = 0 THEN ""
    ELSE IF EqualFold(transitions[1].To, targetStatus) THEN transitions[1].ID
    ELSE findTransition(Tail(transitions), targetStatus)

----------------------------------------------------------------------------
(* Requests *)

Request(method, path, id, fields, query, maxResults, transition) ==
    [method |-> method, path |-> path, id |-> id, fields |-> fields,
     jql |-> query, maxResults |-> maxResults, transition |-> transition]

CreateRequest(fields) == Request("POST", "/rest/api/3/issue", "", fields, <<>>, 0, "")
GetRequest(id) == Request("GET", "/rest/api/3/issue/{id}", id, NoFields, <<>>, 0, "")
SearchRequest(query, maxResults) ==
    Request("POST", "/rest/api/3/search/jql", "", NoFields, query, maxResults, "")
PutRequest(id, fields) == Request("PUT", "/rest/api/3/issue/{id}", id, fields, <<>>, 0, "")
TransitionsRequest(id) ==
    Request("GET", "/rest/api/3/issue/{id}/transitions", id, NoFields, <<>>, 0, "")
TransitionRequest(id, transition) ==
    Request("POST", "/rest/api/3/issue/{id}/transitions", id, NoFields, <<>>, 0, transition)

----------------------------------------------------------------------------
(* Inputs of the provider *)

\* the project key as the characters buildJQL interpolates
CharsOf(s) ==
    IF s = "PROJ" THEN <<"P","R","O","J">>
    ELSE IF s = "P" THEN <<"P">>
    ELSE <<>>

Configs ==
    [Source : {"jira"},
     APIToken : {"test-token"},
     APIURL : {"https://jira.example", BadURLPart},
     Email : {"test@example.com"},
     ProjectKey : {"PROJ"},
     DefaultIssueType : {"Task"}]

IssueIds == {"PROJ-1", BadURLPart}

CreatedKeys == {"PROJ-1", BadURLPart}

sDone == <<"D","o","n","e">>
sDONE == <<"D","O","N","E">>
sOpen == <<"O","p","e","n">>
sHeld == <<"H","e","l","d">>

Transition(id, to) == [ID |-> id, To |-> to]

TransitionLists ==
    {<<>>,
     <<Transition("11", sOpen), Transition("21", sDONE), Transition("31", sDone)>>,
     <<Transition("", sDone), Transition("31", sDone)>>}

\* a []string and a []any of the extra-fields dictionary
StringList(l) == Value("[]string", "", [i \in 1..Len(l) |-> Elem("string", l[i], "")])
AnyList(l) == Value("[]any", "", l)

ExtraOnly(k, v) == [NoFields EXCEPT ![k] = <<v>>]

ExtraFieldMaps ==
    {NoFields,
     ExtraOnly("priority", StringValue("High")),
     ExtraOnly("priority", StringValue("")),
     ExtraOnly("labels", Value("[]string", "", <<>>)),
     ExtraOnly("labels", Value("[]any", "", <<Elem("string", "x", ""), Elem("number", "1", "")>>)),
     ExtraOnly("customfield_1", Value("number", "1", <<>>)),
     ExtraOnly("customfield_1", Value("func", "", <<>>)),
     ExtraOnly("summary", StringValue("Override")),
     ExtraOnly("assignee", Value("{accountId}", "carol", <<>>)),
     ExtraOnly("status", StringValue("Done")),
     ExtraOnly("priority", Value("number", "1", <<>>)),
     ExtraOnly("labels", StringValue("x")),
     ExtraOnly("labels", StringList(<<"a", "b">>)),
     ExtraOnly("labels", AnyList(<<Elem("string", "a", ""), Elem("string", "b", "")>>)),
     ExtraOnly("components", StringList(<<"API", "DB">>)),
     ExtraOnly("components", AnyList(<<Elem("string", "API", ""), Elem("string", "DB", "")>>)),
     ExtraOnly("components", AnyList(<<Elem("string", "API", ""), Elem("number", "1", "")>>)),
     ExtraOnly("components", StringList(<<>>)),
     [NoFields EXCEPT !["project"] = <<Value("{key}", "OTHER", <<>>)>>,
                      !["issuetype"] = <<NameObject("Bug")>>,
                      !["description"] = <<StringValue("raw")>>]}

OptionalFieldMaps == {<<>>} \cup {<<m>> : m \in ExtraFieldMaps}

CreateInputs ==
    [Title : {"T"}, Description : {"", "D"}, Fields : OptionalFieldMaps]

UpdateInputs ==
    [Title : {<<>>, <<"">>, <<"New">>},
     Description : {<<>>, <<"D">>},
     Status : {<<>>, <<sDone>>, <<sHeld>>},
     Assignees : {<<>>, <<<<>>>>, <<<<"alice">>>>, <<<<"alice", "bob">>>>},
     Fields : OptionalFieldMaps]

NoUpdate ==
    [Title |-> <<>>, Description |-> <<>>, Status |-> <<>>, Assignees |-> <<>>,
     Fields |-> <<>>]

QueryInputs ==
    [Query : {<<>>, <<"a", DQ>>},
     Statuses : {<<>>, <<sOpen, sDone>>},
     Assignees : {<<>>},
     Reporter : {<<>>, <<"b">>},
     Limit : {-1, 0, 1, 2}]

NoQuery ==
    [Query |-> <<>>, Statuses |-> <<>>, Assignees |-> <<>>, Reporter |-> <<>>,
     Limit |-> 0]

SearchResults == {<<>>, <<FullIssue>>, <<ZeroIssue, FullIssue>>, <<FullIssue, ZeroIssue, FullIssue>>}

\* the arguments of a call, whichever the operation
Call(op, id, create, update, query) ==
    [op |-> op, id |-> id, create |-> create, update |-> update, query |-> query]

NoCreate == [Title |-> "", Description |-> "", Fields |-> <<>>]

NoCall == Call("none", "", NoCreate, NoUpdate, NoQuery)

Return(ticket, tickets, err) == [ticket |-> ticket, tickets |-> tickets, err |-> err]

NoReturn == Return(ZeroTicket, <<>>, NilErr)

----------------------------------------------------------------------------
(* The provider calls.  A call runs from "idle" through its requests to    *)
(* "done", where ret holds what it returns; every request is one step, its *)
(* answer chosen by the upstream.                                          *)

Send(req, resp) ==
    /\ sent' = Append(sent, req)
    /\ answers' = Append(answers, resp)

Finish(ticket, tickets, err) ==
    /\ pc' = "done"
    /\ ret' = Return(ticket, tickets, err)

Fail(err) == Finish(ZeroTicket, <<>>, err)

NeedsPut_always(fields) == TRUE

\* line 439: the PUT is sent only when there are fields to update
NeedsPut(fields) == NumFields(fields) > 0

AfterTransition_skipsPut(fields) == "get"

\* where Update goes on after the transition, lines 438-471
AfterTransition(fields) == IF NeedsPut(fields) THEN "put" ELSE "get"

FirstUpdateStep_fieldsFirst(in, fields) ==
    IF NeedsPut(fields) THEN "put"
    ELSE IF in.Status # <<>> THEN "trans_get"
    ELSE "get"

\* where Update starts, lines 431-439: the transition when a status is
\* requested
FirstUpdateStep(in, fields) ==
    IF in.Status # <<>> THEN "trans_get" ELSE AfterTransition(fields)

\* Create, lines 98-174: the payload is built
CallCreate ==
    /\ pc = "idle"
    /\ \E in \in CreateInputs :
          /\ call' = Call("Create", "", in, NoUpdate, NoQuery)
          /\ payload' = createFields(in, cfg)
    /\ pc' = "create_post"
    /\ UNCHANGED <<cfg, getId, transitionID, sent, answers, ret>>

createOutcome_acceptsOK(resp) ==
    IF resp.transport THEN Wrap("execute request", Cause("transport"))
    ELSE IF resp.status \notin {StatusCreated, StatusOK}
    THEN StatusErr("jira api error", resp)
    ELSE IF ~Decodable(resp.body) THEN Wrap("decode response", Cause("json"))
    ELSE NilErr

createOutcome_anyStatus(resp) ==
    IF resp.transport THEN Wrap("execute request", Cause("transport"))
    ELSE IF ~Decodable(resp.body) THEN Wrap("decode response", Cause("json"))
    ELSE NilErr

\* how Create reads the answer to its POST, lines 190-208: the error it
\* returns, nil when it goes on to p.Get
createOutcome(resp) ==
    IF resp.transport THEN Wrap("execute request", Cause("transport"))
    ELSE IF resp.status # StatusCreated THEN StatusErr("jira api error", resp)
    ELSE IF ~Decodable(resp.body) THEN Wrap("decode response", Cause("json"))
    ELSE NilErr

\* Create, lines 176-211: the POST and the decision to fetch the issue
CreatePost ==
    /\ pc = "create_post"
    /\ IF ~Marshalable(payload)
       THEN /\ Fail(Wrap("marshal create payload", Cause("json")))
            /\ UNCHANGED <<sent, answers, getId>>
       ELSE IF ~ValidURL(cfg.APIURL, "")
       THEN /\ Fail(Wrap("create request", Cause("url")))
            /\ UNCHANGED <<sent, answers, getId>>
       ELSE \E resp \in Responses({CreatedBody(k) : k \in CreatedKeys}) :
              /\ Send(CreateRequest(payload), resp)
              /\ IF createOutcome(resp) # NilErr
                 THEN Fail(createOutcome(resp)) /\ UNCHANGED getId
                 ELSE /\ getId' = resp.body.key
                      /\ pc' = "get"
                      /\ UNCHANGED ret
    /\ UNCHANGED <<cfg, call, payload, transitionID>>

\* Get, line 215: called by the host
CallGet ==
    /\ pc = "idle"
    /\ \E id \in IssueIds :
          /\ call' = Call("Get", id, NoCreate, NoUpdate, NoQuery)
          /\ getId' = id
    /\ pc' = "get"
    /\ UNCHANGED <<cfg, payload, transitionID, sent, answers, ret>>

getOutcome_notFoundGeneric(resp, source) ==
    IF resp.transport
    THEN Return(ZeroTicket, <<>>, Wrap("execute request", Cause("transport")))
    ELSE IF resp.status # StatusOK
    THEN Return(ZeroTicket, <<>>, StatusErr("jira api error", resp))
    ELSE IF ~Decodable(resp.body)
    THEN Return(ZeroTicket, <<>>, Wrap("decode response", Cause("json")))
    ELSE Return(convertJiraIssue(resp.body.issue, source), <<>>, NilErr)

\* how Get reads the answer to its GET, lines 224-244
getOutcome(resp, source) ==
    IF resp.transport
    THEN Return(ZeroTicket, <<>>, Wrap("execute request", Cause("transport")))
    ELSE IF resp.status = StatusNotFound
    THEN Return(ZeroTicket, <<>>, errNotFound)
    ELSE IF resp.status # StatusOK
    THEN Return(ZeroTicket, <<>>, StatusErr("jira api error", resp))
    ELSE IF ~Decodable(resp.body)
    THEN Return(ZeroTicket, <<>>, Wrap("decode response", Cause("json")))
    ELSE Return(convertJiraIssue(resp.body.issue, source), <<>>, NilErr)

\* Get, lines 215-245, as called by the host, by Create or by Update
GetIssue ==
    /\ pc = "get"
    /\ IF ~ValidURL(cfg.APIURL, getId)
       THEN /\ Fail(Wrap("create request", Cause("url")))
            /\ UNCHANGED <<sent, answers>>
       ELSE \E resp \in Responses({IssueBody(i) : i \in Issues}) :
              /\ Send(GetRequest(getId), resp)
              /\ pc' = "done"
              /\ ret' = getOutcome(resp, cfg.Source)
    /\ UNCHANGED <<cfg, call, payload, getId, transitionID>>

\* maxResults of lines 256-261
DefaultMaxResults == 50

maxResults_nonNegative(limit) == IF limit >= 0 THEN limit ELSE DefaultMaxResults

maxResults(limit) == IF limit > 0 THEN limit ELSE DefaultMaxResults

\* Query, line 248: called by the host
CallQuery ==
    /\ pc = "idle"
    /\ \E query \in QueryInputs :
          call' = Call("Query", "", NoCreate, NoUpdate, query)
    /\ pc' = "query_post"
    /\ UNCHANGED <<cfg, payload, getId, transitionID, sent, answers, ret>>

convertAll_lastIssue(issues, source) ==
    [i \in 1..Len(issues) |-> convertJiraIssue(issues[Len(issues)], source)]

\* tickets of lines 295-298
convertAll(issues, source) ==
    [i \in 1..Len(issues) |-> convertJiraIssue(issues[i], source)]

queryOutcome_notFound(resp, source) ==
    IF resp.transport
    THEN Return(ZeroTicket, <<>>, Wrap("execute request", Cause("transport")))
    ELSE IF resp.status = StatusNotFound
    THEN Return(ZeroTicket, <<>>, errNotFound)
    ELSE IF resp.status # StatusOK
    THEN Return(ZeroTicket, <<>>, StatusErr("jira api error", resp))
    ELSE IF ~Decodable(resp.body)
    THEN Return(ZeroTicket, <<>>, Wrap("decode response", Cause("json")))
    ELSE Return(ZeroTicket, <<convertAll(resp.body.issues, source)>>, NilErr)

\* how Query reads the answer to its POST, lines 277-300
queryOutcome(resp, source) ==
    IF resp.transport
    THEN Return(ZeroTicket, <<>>, Wrap("execute request", Cause("transport")))
    ELSE IF resp.status # StatusOK
    THEN Return(ZeroTicket, <<>>, StatusErr("jira api error", resp))
    ELSE IF ~Decodable(resp.body)
    THEN Return(ZeroTicket, <<>>, Wrap("decode response", Cause("json")))
    ELSE Return(ZeroTicket, <<convertAll(resp.body.issues, source)>>, NilErr)

\* Query, lines 248-301
QueryPost ==
    /\ pc = "query_post"
    /\ IF ~ValidURL(cfg.APIURL, "")
       THEN /\ Fail(Wrap("create request", Cause("url")))
            /\ UNCHANGED <<sent, answers>>
       ELSE \E resp \in Responses({SearchBody(is) : is \in SearchResults}) :
              /\ Send(SearchRequest(buildJQL(call.query, CharsOf(cfg.ProjectKey)),
                                    maxResults(call.query.Limit)),
                      resp)
              /\ pc' = "done"
              /\ ret' = queryOutcome(resp, cfg.Source)
    /\ UNCHANGED <<cfg, call, payload, getId, transitionID>>

\* Update, lines 350-436: the payload is built, then the transition is run
\* first when a status is requested
CallUpdate ==
    /\ pc = "idle"
    /\ \E id \in IssueIds, in \in UpdateInputs :
          /\ call' = Call("Update", id, NoCreate, in, NoQuery)
          /\ payload' = updateFields(in)
          /\ getId' = id
          /\ pc' = FirstUpdateStep(in, updateFields(in))
    /\ UNCHANGED <<cfg, transitionID, sent, answers, ret>>

transitionsOutcome_noMatchIgnored(resp, targetStatus) ==
    IF resp.transport THEN Wrap("execute transitions request", Cause("transport"))
    ELSE IF resp.status # StatusOK THEN StatusErr("get transitions error", resp)
    ELSE IF ~Decodable(resp.body) THEN Wrap("decode transitions", Cause("json"))
    ELSE NilErr

\* how transitionIssue reads the answer to its GET, lines 484-519
transitionsOutcome(resp, targetStatus) ==
    IF resp.transport THEN Wrap("execute transitions request", Cause("transport"))
    ELSE IF resp.status # StatusOK THEN StatusErr("get transitions error", resp)
    ELSE IF ~Decodable(resp.body) THEN Wrap("decode transitions", Cause("json"))
    ELSE IF findTransition(resp.body.transitions, targetStatus) = ""
    THEN <<[ErrLayer("no transition found to status", 0, EmptyBody, FALSE)
              EXCEPT !.arg = targetStatus]>>
    ELSE NilErr

\* transitionIssue, lines 474-519: the available transitions are read and
\* the one to apply is chosen; Update wraps its error (line 434)
TransitionsGet ==
    /\ pc = "trans_get"
    /\ IF ~ValidURL(cfg.APIURL, call.id)
       THEN /\ Fail(Wrap("transition issue",
                         Wrap("create transitions request", Cause("url"))))
            /\ UNCHANGED <<sent, answers, transitionID>>
       ELSE \E resp \in Responses({TransitionsBody(ts) : ts \in TransitionLists}) :
              /\ Send(TransitionsRequest(call.id), resp)
              /\ LET err == transitionsOutcome(resp, call.update.Status[1])
                 IN IF err # NilErr
                    THEN Fail(Wrap("transition issue", err)) /\ UNCHANGED transitionID
                    ELSE /\ transitionID' =
                               findTransition(resp.body.transitions, call.update.Status[1])
                         /\ pc' = "trans_post"
                         /\ UNCHANGED ret
    /\ UNCHANGED <<cfg, call, payload, getId>>

transitionOutcome_ignoresStatus(resp) ==
    IF resp.transport THEN Wrap("execute transition request", Cause("transport"))
    ELSE NilErr

\* how transitionIssue reads the answer to its POST, lines 542-553
transitionOutcome(resp) ==
    IF resp.transport THEN Wrap("execute transition request", Cause("transport"))
    ELSE IF resp.status # StatusNoContent THEN StatusErr("transition error", resp)
    ELSE NilErr

\* transitionIssue, lines 521-553: the transition is applied
TransitionsPost ==
    /\ pc = "trans_post"
    /\ \E resp \in Responses({}) :
          /\ Send(TransitionRequest(call.id, transitionID), resp)
          /\ LET err == transitionOutcome(resp)
             IN IF err # NilErr
                THEN Fail(Wrap("transition issue", err))
                ELSE pc' = AfterTransition(payload) /\ UNCHANGED ret
    /\ UNCHANGED <<cfg, call, payload, getId, transitionID>>

putOutcome_onlyNotFound(resp) ==
    IF resp.transport THEN Wrap("execute request", Cause("transport"))
    ELSE IF resp.status = StatusNotFound THEN errNotFound
    ELSE NilErr

\* how Update reads the answer to its PUT, lines 454-467
putOutcome(resp) ==
    IF resp.transport THEN Wrap("execute request", Cause("transport"))
    ELSE IF resp.status = StatusNotFound THEN errNotFound
    ELSE IF resp.status # StatusNoContent THEN StatusErr("jira api error", resp)
    ELSE NilErr

\* Update, lines 438-471: the field update, then the issue is fetched again
UpdatePut ==
    /\ pc = "put"
    /\ IF ~Marshalable(payload)
       THEN /\ Fail(Wrap("marshal update payload", Cause("json")))
            /\ UNCHANGED <<sent, answers>>
       ELSE IF ~ValidURL(cfg.APIURL, call.id)
       THEN /\ Fail(Wrap("create request", Cause("url")))
            /\ UNCHANGED <<sent, answers>>
       ELSE \E resp \in Responses({}) :
              /\ Send(PutRequest(call.id, payload), resp)
              /\ IF putOutcome(resp) # NilErr
                 THEN Fail(putOutcome(resp))
                 ELSE pc' = "get" /\ UNCHANGED ret
    /\ UNCHANGED <<cfg, call, payload, getId, transitionID>>

----------------------------------------------------------------------------
(* Construction: New and parseConfig *)

ConfigKeys == {"source", "apiToken", "email", "apiURL", "projectKey",
               "defaultIssueType"}

\* a value of the map[string]any: the key is absent, or holds a string (a
\* sequence of characters), or something that is not a string
Raw(t, s) == [t |-> t, s |-> s]

Absent == Raw("absent", <<>>)
NotAString == Raw("number", <<>>)
Str(s) == Raw("string", s)

SP == " "

\* strings.TrimSpace
RECURSIVE TrimLeft(_)
TrimLeft(s) == IF s # <<>> /\ Head(s) = SP THEN TrimLeft(Tail(s)) ELSE s

RECURSIVE TrimRight(_)
TrimRight(s) ==
    IF s # <<>> /\ s[Len(s)] = SP THEN TrimRight(SubSeq(s, 1, Len(s) - 1)) ELSE s

TrimSpace(s) == TrimRight(TrimLeft(s))

\* the defaults of lines 67-71, each taken as one symbol
DefaultSource == <<"jira">>
DefaultAPIURL == <<"https://your-domain.atlassian.net">>
DefaultIssueTypeName == <<"Task">>

StringOr_acceptsEmpty(v, default) == IF v.t = "string" THEN v.s ELSE default

\* `if v, ok := cfg[k].(string); ok && v != ""`, lines 72 and 87
StringOr(v, default) == IF v.t = "string" /\ v.s # <<>> THEN v.s ELSE default

\* `if v, ok := cfg[k].(string); ok { out.X = strings.TrimSpace(v) }`
TrimmedString(v) == IF v.t = "string" THEN TrimSpace(v.s) ELSE <<>>

\* lines 66-91
parseConfig(c) ==
    [Source |-> StringOr(c["source"], DefaultSource),
     APIToken |-> TrimmedString(c["apiToken"]),
     Email |-> TrimmedString(c["email"]),
     APIURL |-> IF c["apiURL"].t = "string" /\ c["apiURL"].s # <<>>
                THEN TrimSpace(c["apiURL"].s) ELSE DefaultAPIURL,
     ProjectKey |-> TrimmedString(c["projectKey"]),
     DefaultIssueType |-> StringOr(c["defaultIssueType"], DefaultIssueTypeName)]

\* Config{}
ZeroConfig ==
    [Source |-> <<>>, APIToken |-> <<>>, Email |-> <<>>, APIURL |-> <<>>,
     ProjectKey |-> <<>>, DefaultIssueType |-> <<>>]

\* what New returns: the provider (the Config it holds) or nil, and the error
\* message or "" for nil
NewReturn(prov, err) == [provider |-> prov, err |-> err]

\* lines 46-64
New(c) ==
    LET p == parseConfig(c)
    IN IF p.APIToken = <<>> THEN NewReturn(<<>>, "jira apiToken is required")
       ELSE IF p.Email = <<>> THEN NewReturn(<<>>, "jira email is required")
       ELSE IF p.ProjectKey = <<>> THEN NewReturn(<<>>, "jira projectKey is required")
       ELSE IF p.APIURL = <<>> THEN NewReturn(<<>>, "jira apiURL is required")
       ELSE NewReturn(<<p>>, "")

NoRawCfg == [k \in ConfigKeys |-> Absent]

\* New is not running
ConfUnused ==
    /\ rawCfg = NoRawCfg
    /\ parsed = ZeroConfig
    /\ newRet = NewReturn(<<>>, "")
    /\ cpc = "unused"

\* what a mandatory key can hold: nothing, a non-string, an empty, blank,
\* padded or plain string
MandatoryValues ==
    {Absent, NotAString, Str(<<>>), Str(<<SP>>), Str(<<SP, "x", SP>>), Str(<<"x">>)}

OptionalValues == {Absent, NotAString, Str(<<>>), Str(<<SP, "x">>)}

----------------------------------------------------------------------------
(* The plugin process: cmd/ticketplugin *)

MaxFrames == 3

\* a complete configuration whose token is tok
GoodCfg(tok) ==
    [k \in ConfigKeys |->
        IF k = "apiToken" THEN Str(<<tok>>)
        ELSE IF k \in {"email", "projectKey"} THEN Str(<<"x">>)
        ELSE Absent]

\* the config of a request frame: two that New accepts, one it rejects
FrameConfigs == {GoodCfg("a"), GoodCfg("b"), NoRawCfg}

Methods == {"ticket.query", "ticket.get", "ticket.create", "ticket.update",
            "ticket.other"}

\* rpcRequest, lines 23-27; payloadOK tells whether json.Unmarshal accepts
\* the payload for the method's input type
Frame(method, config, payloadOK) ==
    [method |-> method, config |-> config, payloadOK |-> payloadOK]

Frames == {Frame(m, c, ok) : m \in Methods, c \in FrameConfigs, ok \in BOOLEAN}

NoFrame == Frame("", NoRawCfg, FALSE)

\* what a provider method hands back to the loop: the kind of its result
\* ("ticket", "tickets" for a non-empty slice, "tickets0" for the empty
\* non-nil slice of line 295, "nil" for a nil slice) and its error message,
\* "" for a nil error
Outcome(result, err) == [result |-> result, err |-> err]

ProviderOutcomes(method) ==
    IF method = "ticket.query"
    THEN {Outcome("tickets", ""), Outcome("tickets0", ""),
          Outcome("nil", "jira api error")}
    ELSE {Outcome("ticket", ""), Outcome("ticket", "jira api error")}

\* one line of stdout: rpcResponse as encoded with omitempty (lines 29-32),
\* result and error being present or omitted; n is the number of the request
\* the frame answers (0: none was decoded) and by the provider the call ran on
ResponseFrame(result, err, n, by) ==
    [result |-> IF result = "nil" THEN <<>> ELSE <<result>>,
     error |-> IF err = "" THEN <<>> ELSE <<err>>,
     n |-> n, by |-> by]

\* lines 121-123
writeErr(err, n, by) == ResponseFrame("nil", err, n, by)

write_keepsResult(result, err, n, by) == ResponseFrame(result, err, n, by)

\* lines 113-119
write(result, err, n, by) ==
    IF err # "" THEN writeErr(err, n, by) ELSE ResponseFrame(result, "", n, by)

ensureProvider_always(current, config) == New(config)

\* lines 101-111: what ensureProvider returns, the provider being current
ensureProvider(current, config) ==
    IF current # <<>> THEN NewReturn(current, "") ELSE New(config)

\* the plugin is not running
PluginUnused ==
    /\ provider = <<>>
    /\ rpcReq = NoFrame
    /\ written = <<>>
    /\ decoded = 0
    /\ ppc = "unused"

\* the state of a provider that no call is running on; the provider keeps no
\* state between calls (cfg is read only), so a behaviour follows one call
ProviderIdle ==
    /\ pc = "idle"
    /\ call = NoCall
    /\ payload = NoFields
    /\ getId = ""
    /\ transitionID = ""
    /\ sent = <<>>
    /\ answers = <<>>
    /\ ret = NoReturn

\* convertJiraIssue is not running
NormUnused ==
    /\ inIssue = ZeroIssue
    /\ outTicket = ZeroTicket
    /\ npc = "unused"

Init ==
    /\ cfg \in Configs
    /\ ProviderIdle
    /\ q = [Query |-> <<>>, Statuses |-> <<>>, Assignees |-> <<>>, Reporter |-> <<>>]
    /\ projectKey = <<>>
    /\ clauses = <<>>
    /\ jql = <<>>
    /\ jpc = "unused"
    /\ NormUnused
    /\ ConfUnused
    /\ PluginUnused

Next ==
    \/ (CallCreate /\ UNCHANGED jqlVars /\ UNCHANGED normVars /\ UNCHANGED confVars /\ UNCHANGED plugVars)
    \/ (CreatePost /\ UNCHANGED jqlVars /\ UNCHANGED normVars /\ UNCHANGED confVars /\ UNCHANGED plugVars)
    \/ (CallGet /\ UNCHANGED jqlVars /\ UNCHANGED normVars /\ UNCHANGED confVars /\ UNCHANGED plugVars)
    \/ (GetIssue /\ UNCHANGED jqlVars /\ UNCHANGED normVars /\ UNCHANGED confVars /\ UNCHANGED plugVars)
    \/ (CallQuery /\ UNCHANGED jqlVars /\ UNCHANGED normVars /\ UNCHANGED confVars /\ UNCHANGED plugVars)
    \/ (QueryPost /\ UNCHANGED jqlVars /\ UNCHANGED normVars /\ UNCHANGED confVars /\ UNCHANGED plugVars)
    \/ (CallUpdate /\ UNCHANGED jqlVars /\ UNCHANGED normVars /\ UNCHANGED confVars /\ UNCHANGED plugVars)
    \/ (TransitionsGet /\ UNCHANGED jqlVars /\ UNCHANGED normVars /\ UNCHANGED confVars /\ UNCHANGED plugVars)
    \/ (TransitionsPost /\ UNCHANGED jqlVars /\ UNCHANGED normVars /\ UNCHANGED confVars /\ UNCHANGED plugVars)
    \/ (UpdatePut /\ UNCHANGED jqlVars /\ UNCHANGED normVars /\ UNCHANGED confVars /\ UNCHANGED plugVars)

Spec == Init /\ [][Next]_vars

----------------------------------------------------------------------------
(* Inputs of the query compiler *)

\* values of the reporter filter: none, a backslash, a quote inside text
ElemValues == {<<>>, <<BS>>, <<"a", DQ>>}

ProjectKeys == {<<"P">>, <<"Q","A">>}

TicketQueries ==
    [Query : Strs(MaxStrLen),
     Statuses : Lists({<<"a">>, <<DQ>>}, MaxListLen),
     Assignees : Lists({<<"a">>, <<BS, DQ>>}, MaxListLen),
     Reporter : ElemValues]

InitJQL ==
    /\ q \in TicketQueries
    /\ projectKey \in ProjectKeys
    /\ clauses = <<>>
    /\ jql = <<>>
    /\ jpc = "input"
    /\ cfg \in {c \in Configs : c.APIURL # BadURLPart}
    /\ ProviderIdle
    /\ NormUnused
    /\ ConfUnused
    /\ PluginUnused

\* one call of buildJQL(q, projectKey)
BuildJQL ==
    /\ jpc = "input"
    /\ clauses' = buildClauses(q, projectKey)
    /\ jql' = buildJQL(q, projectKey)
    /\ jpc' = "built"
    /\ UNCHANGED <<q, projectKey>>
    /\ UNCHANGED provVars
    /\ UNCHANGED normVars
    /\ UNCHANGED confVars
    /\ UNCHANGED plugVars

NextJQL == BuildJQL

SpecJQL == InitJQL /\ [][NextJQL]_vars

----------------------------------------------------------------------------
(* Inputs of the issue normalisation *)

\* the text of a node: absent or empty, plain, with a space of its own
Texts == {<<>>, <<"a">>, <<"b", " ">>}

\* a content block: its text nodes, lines 562-566
Blocks == Lists(Texts, MaxNodes)

\* Fields.Description.Content with n blocks, lines 561-567
DescriptionsOfLen(n) == [1..n -> Blocks]

\* raw issues that differ in their optional objects and lists
NormBases ==
    {[FullIssue EXCEPT !.Labels = ls, !.Components = cs, !.Priority = pr,
                       !.Assignee = a, !.Reporter = r] :
        ls \in {<<>>, <<"backend">>, <<"urgent", "backend">>},
        cs \in {<<>>, <<[ID |-> "7", Name |-> "API"]>>,
                <<[ID |-> "8", Name |-> "DB"], [ID |-> "7", Name |-> "API"]>>},
        pr \in {<<>>, <<[ID |-> "2", Name |-> "High"]>>},
        a \in {<<>>, <<[AccountID |-> "alice", DisplayName |-> "Alice"]>>},
        r \in {<<>>, <<[AccountID |-> "bob", DisplayName |-> "Bob"]>>}}

\* cfg.Source: the default label and a configured one
NormSources == {"jira", "jira-prod"}

InitNorm ==
    /\ \/ /\ \E n \in 0..MaxBlocks : \E d \in DescriptionsOfLen(n) :
                inIssue = [FullIssue EXCEPT !.Description = d]
          /\ cfg \in {c \in Configs : c.APIURL # BadURLPart}
       \/ /\ inIssue \in NormBases
          /\ \E c \in Configs, src \in NormSources :
                /\ c.APIURL # BadURLPart
                /\ cfg = [c EXCEPT !.Source = src]
    /\ outTicket = ZeroTicket
    /\ npc = "input"
    /\ ConfUnused
    /\ PluginUnused
    /\ ProviderIdle
    /\ q = [Query |-> <<>>, Statuses |-> <<>>, Assignees |-> <<>>, Reporter |-> <<>>]
    /\ projectKey = <<>>
    /\ clauses = <<>>
    /\ jql = <<>>
    /\ jpc = "unused"

\* one call of convertJiraIssue(issue, p.cfg.Source)
ConvertIssue ==
    /\ npc = "input"
    /\ outTicket' = convertJiraIssue(inIssue, cfg.Source)
    /\ npc' = "converted"
    /\ UNCHANGED inIssue
    /\ UNCHANGED jqlVars
    /\ UNCHANGED provVars
    /\ UNCHANGED confVars
    /\ UNCHANGED plugVars

NextNorm == ConvertIssue

SpecNorm == InitNorm /\ [][NextNorm]_vars

----------------------------------------------------------------------------
(* Inputs of the construction *)

InitConf ==
    /\ \E src \in OptionalValues, tok \in MandatoryValues, em \in MandatoryValues,
          url \in MandatoryValues, pk \in MandatoryValues, dit \in OptionalValues :
          rawCfg = [k \in ConfigKeys |->
                      CASE k = "source" -> src
                        [] k = "apiToken" -> tok
                        [] k = "email" -> em
                        [] k = "apiURL" -> url
                        [] k = "projectKey" -> pk
                        [] OTHER -> dit]
    /\ parsed = ZeroConfig
    /\ newRet = NewReturn(<<>>, "")
    /\ cpc = "input"
    /\ PluginUnused
    /\ cfg \in {c \in Configs : c.APIURL # BadURLPart}
    /\ ProviderIdle
    /\ NormUnused
    /\ q = [Query |-> <<>>, Statuses |-> <<>>, Assignees |-> <<>>, Reporter |-> <<>>]
    /\ projectKey = <<>>
    /\ clauses = <<>>
    /\ jql = <<>>
    /\ jpc = "unused"

\* one call of New(cfg)
CallNew ==
    /\ cpc = "input"
    /\ parsed' = parseConfig(rawCfg)
    /\ newRet' = New(rawCfg)
    /\ cpc' = "returned"
    /\ UNCHANGED rawCfg
    /\ UNCHANGED jqlVars
    /\ UNCHANGED provVars
    /\ UNCHANGED normVars
    /\ UNCHANGED plugVars

NextConf == CallNew

SpecConf == InitConf /\ [][NextConf]_vars

----------------------------------------------------------------------------
(* The plugin loop *)

InitPlugin ==
    /\ provider = <<>>
    /\ rpcReq = NoFrame
    /\ written = <<>>
    /\ decoded = 0
    /\ ppc = "decode"
    /\ ConfUnused
    /\ cfg \in {c \in Configs : c.APIURL # BadURLPart}
    /\ ProviderIdle
    /\ NormUnused
    /\ q = [Query |-> <<>>, Statuses |-> <<>>, Assignees |-> <<>>, Reporter |-> <<>>]
    /\ projectKey = <<>>
    /\ clauses = <<>>
    /\ jql = <<>>
    /\ jpc = "unused"

PluginOthers ==
    /\ UNCHANGED jqlVars
    /\ UNCHANGED provVars
    /\ UNCHANGED normVars
    /\ UNCHANGED confVars

\* lines 41-42: dec.Decode reads one more request frame
DecodeFrame ==
    /\ ppc = "decode"
    /\ decoded < MaxFrames
    /\ \E f \in Frames : rpcReq' = f
    /\ decoded' = decoded + 1
    /\ ppc' = "dispatch"
    /\ UNCHANGED <<provider, written>>
    /\ PluginOthers

\* lines 43-45: dec.Decode meets the end of the stream
DecodeEOF ==
    /\ ppc = "decode"
    /\ ppc' = "exited"
    /\ UNCHANGED <<provider, rpcReq, written, decoded>>
    /\ PluginOthers

DecodeError_continues ==
    /\ ppc = "decode"
    /\ written' = Append(written, writeErr("invalid character", 0, <<>>))
    /\ ppc' = "decode"
    /\ UNCHANGED <<provider, rpcReq, decoded>>
    /\ PluginOthers

\* lines 46-47: dec.Decode fails on what it reads
DecodeError ==
    /\ ppc = "decode"
    /\ written' = Append(written, writeErr("invalid character", 0, <<>>))
    /\ ppc' = "exited"
    /\ UNCHANGED <<provider, rpcReq, decoded>>
    /\ PluginOthers

\* lines 50-97: ensureProvider, the switch on the method, the response
Dispatch ==
    /\ ppc = "dispatch"
    /\ LET r == ensureProvider(provider, rpcReq.config)
       IN IF r.err # ""
          THEN /\ written' = Append(written, writeErr(r.err, decoded, <<>>))
               /\ UNCHANGED provider
          ELSE /\ provider' = r.provider
               /\ IF rpcReq.method = "ticket.other"
                  THEN written' = Append(written,
                                    writeErr("unknown method", decoded, r.provider))
                  ELSE IF ~rpcReq.payloadOK
                  THEN written' = Append(written,
                                    writeErr("unexpected end of JSON input",
                                             decoded, r.provider))
                  ELSE \E o \in ProviderOutcomes(rpcReq.method) :
                          written' = Append(written,
                                       write(o.result, o.err, decoded, r.provider))
    /\ ppc' = "decode"
    /\ UNCHANGED <<rpcReq, decoded>>
    /\ PluginOthers

NextPlugin ==
    \/ DecodeFrame
    \/ DecodeEOF
    \/ DecodeError
    \/ Dispatch

SpecPlugin == InitPlugin /\ [][NextPlugin]_vars

----------------------------------------------------------------------------
(* Properties of the query compiler *)

\* position of a clause in the contract order, read off its literal prefix
ClauseKind(c) ==
    IF HasPrefix(c, LitProject) THEN 1
    ELSE IF HasPrefix(c, LitText) THEN 2
    ELSE IF HasPrefix(c, LitStatus) THEN 3
    ELSE IF HasPrefix(c, LitAssignee) THEN 4
    ELSE IF HasPrefix(c, LitReporter) THEN 5
    ELSE 0

HasKind(k) == \E i \in 1..Len(clauses) : ClauseKind(clauses[i]) = k

ClauseOf(k) == clauses[CHOOSE i \in 1..Len(clauses) : ClauseKind(clauses[i]) = k]

Contains(s, p) == \E i \in 1..Len(s) : HasPrefixAt(s, i, p)

NoFilters ==
    /\ q.Query = <<>>
    /\ q.Statuses = <<>>
    /\ q.Assignees = <<>>
    /\ q.Reporter = <<>>

\* C1: the clauses come in the order project, text, status, assignee,
\* reporter, each at most once, joined by " AND ", and the string ends with
\* " ORDER BY key DESC".
C1_ClauseOrder ==
    jpc = "built" =>
        /\ Len(clauses) >= 1
        /\ \A i \in 1..Len(clauses) : ClauseKind(clauses[i]) \in 1..5
        /\ \A i, j \in 1..Len(clauses) :
              i < j => ClauseKind(clauses[i]) < ClauseKind(clauses[j])
        /\ jql = Join(clauses, LitAnd) \o LitOrder
        /\ HasSuffix(jql, LitOrder)

C1_Witness ==
    /\ jpc = "built"
    /\ Len(clauses) = 5
    /\ Len(q.Statuses) = 2

QuotesBefore(s, i) == Cardinality({k \in 1..(i - 1) : s[k] = DQ})

EscPos(s, i) == i + QuotesBefore(s, i)

\* the escaped string, character by character: character i of the input sits
\* at position EscPos(s, i), a quote preceded by one backslash
RefEscape(s) ==
    [p \in 1..(Len(s) + QuotesBefore(s, Len(s) + 1)) |->
        LET i == CHOOSE k \in 1..Len(s) :
                    /\ EscPos(s, k) <= p
                    /\ p <= EscPos(s, k) + (IF s[k] = DQ THEN 1 ELSE 0)
        IN IF s[i] = DQ THEN (IF p = EscPos(s, i) THEN BS ELSE DQ) ELSE s[i]]

RefQuoted(xs) == [i \in 1..Len(xs) |-> LitQuote \o RefEscape(xs[i]) \o LitQuote]

\* C3: every value interpolated into the query string has each double quote
\* replaced by backslash + double quote and every other character, a
\* backslash included, left unchanged and in place.
C3_EscapedValues ==
    jpc = "built" =>
        /\ q.Query # <<>> =>
              ClauseOf(2) = LitText \o RefEscape(q.Query) \o LitQuote
        /\ Len(q.Statuses) > 0 =>
              ClauseOf(3) = LitStatus \o Join(RefQuoted(q.Statuses), LitComma) \o LitClose
        /\ Len(q.Assignees) > 0 =>
              ClauseOf(4) = LitAssignee \o Join(RefQuoted(q.Assignees), LitComma) \o LitClose
        /\ q.Reporter # <<>> =>
              ClauseOf(5) = LitReporter \o RefEscape(q.Reporter) \o LitQuote

C3_Witness ==
    /\ jpc = "built"
    /\ Len(q.Query) = 3
    /\ q.Query[1] = DQ /\ q.Query[2] = BS /\ q.Query[3] = DQ
    /\ HasKind(2)

\* C4 as stated: escaping an escaped string changes nothing.
C4_Idempotent ==
    jpc = "built" => escapeJQL(escapeJQL(q.Query)) = escapeJQL(q.Query)

\* C4 amended: escaping twice equals escaping once exactly when the input has
\* no double quote (escaping is then the identity); otherwise the second pass
\* escapes the quotes again and adds one more backslash per quote.
C4_IdempotentIffNoQuote ==
    jpc = "built" =>
        LET s == q.Query
            n == QuotesBefore(s, Len(s) + 1)
            once == escapeJQL(s)
            twice == escapeJQL(once)
        IN /\ (twice = once) <=> (n = 0)
           /\ n = 0 => once = s
           /\ Len(once) = Len(s) + n
           /\ Len(twice) = Len(s) + 2 * n

C4_Witness ==
    /\ jpc = "built"
    /\ QuotesBefore(q.Query, Len(q.Query) + 1) = 2
    /\ Len(escapeJQL(escapeJQL(q.Query))) = Len(q.Query) + 4

----------------------------------------------------------------------------
(* Properties of the provider calls *)

Done(op) == pc = "done" /\ call.op = op

Succeeded(op) == Done(op) /\ ret.err = NilErr

\* the i-th request was answered with HTTP status st
AnsweredWith(i, st) == ~answers[i].transport /\ answers[i].status = st

IsPost(req) == req.method = "POST" /\ req.path = "/rest/api/3/issue"
IsGet(req) == req.method = "GET" /\ req.path = "/rest/api/3/issue/{id}"
IsPut(req) == req.method = "PUT" /\ req.path = "/rest/api/3/issue/{id}"
IsTransitionRead(req) ==
    req.method = "GET" /\ req.path = "/rest/api/3/issue/{id}/transitions"
IsTransitionWrite(req) ==
    req.method = "POST" /\ req.path = "/rest/api/3/issue/{id}/transitions"

\* C5 as stated: whatever the upstream answers, a Create that has returned
\* has issued exactly one POST followed by one GET by the returned key.
C5_AlwaysPostThenGet ==
    Done("Create") =>
        /\ Len(sent) = 2
        /\ IsPost(sent[1])
        /\ IsGet(sent[2])
        /\ sent[2].id = answers[1].body.key

\* C5 amended: a Create issues at most two requests, the POST first, and the
\* GET by the returned key only after the POST was answered created with a
\* decodable body; a Create that succeeds has issued exactly these two.
C5_PostThenGetWhenCreated ==
    call.op = "Create" =>
        /\ Len(sent) <= 2
        /\ Len(sent) >= 1 => IsPost(sent[1]) /\ sent[1].fields = payload
        /\ Len(sent) = 2 =>
              /\ AnsweredWith(1, StatusCreated)
              /\ Decodable(answers[1].body)
              /\ sent[2] = GetRequest(answers[1].body.key)
        /\ pc = "done" /\ Len(sent) < 2 => ret.err # NilErr
        /\ Succeeded("Create") => Len(sent) = 2

C5_Witness ==
    /\ Succeeded("Create")
    /\ Len(sent) = 2
    /\ IsPost(sent[1])
    /\ sent[2] = GetRequest("PROJ-1")

StatusOnly(in) ==
    /\ in.Status # <<>>
    /\ in.Title = <<>>
    /\ in.Description = <<>>
    /\ in.Assignees = <<>>
    /\ (in.Fields = <<>> \/ in.Fields = <<NoFields>>)

\* C6: a successful Update that requests only a status issues exactly GET
\* transitions, POST transitions, GET issue, and no PUT.
C6_StatusOnlyUpdate ==
    Succeeded("Update") /\ StatusOnly(call.update) =>
        /\ Len(sent) = 3
        /\ sent[1] = TransitionsRequest(call.id)
        /\ IsTransitionWrite(sent[2]) /\ sent[2].id = call.id
        /\ sent[3] = GetRequest(call.id)
        /\ \A i \in 1..Len(sent) : ~IsPut(sent[i])

C6_Witness ==
    /\ Succeeded("Update")
    /\ StatusOnly(call.update)
    /\ Len(sent) = 3
    /\ sent[2].transition = "21"

\* the place of a request in the order of Update
UpdateRank(req) ==
    IF IsTransitionRead(req) THEN 1
    ELSE IF IsTransitionWrite(req) THEN 2
    ELSE IF IsPut(req) THEN 3
    ELSE IF IsGet(req) THEN 4
    ELSE 0

\* C7: within one Update the transition read and write are answered before
\* the PUT is sent, the PUT before the re-fetch, and the re-fetch is the last
\* request of a successful Update.
C7_UpdateOrder ==
    call.op = "Update" =>
        /\ Len(answers) = Len(sent)
        /\ \A i \in 1..Len(sent) : UpdateRank(sent[i]) \in 1..4
        /\ \A i, j \in 1..Len(sent) :
              i < j => UpdateRank(sent[i]) < UpdateRank(sent[j])
        /\ \A i \in 1..Len(sent) :
              (IsPut(sent[i]) \/ IsGet(sent[i])) /\ call.update.Status # <<>> =>
                  /\ i >= 3
                  /\ IsTransitionRead(sent[1]) /\ AnsweredWith(1, StatusOK)
                  /\ IsTransitionWrite(sent[2]) /\ AnsweredWith(2, StatusNoContent)
        /\ \A i \in 1..Len(sent) :
              IsGet(sent[i]) /\ NeedsPut(payload) =>
                  /\ i >= 2
                  /\ IsPut(sent[i - 1]) /\ AnsweredWith(i - 1, StatusNoContent)
        /\ Succeeded("Update") => sent[Len(sent)] = GetRequest(call.id)

C7_Witness ==
    /\ Succeeded("Update")
    /\ Len(sent) = 4
    /\ IsTransitionRead(sent[1])
    /\ IsTransitionWrite(sent[2])
    /\ IsPut(sent[3])
    /\ IsGet(sent[4])

\* C8: a Get or an Update one of whose requests was answered not-found
\* returns errNotFound itself, whatever the Update asked for.
C8_NotFoundPropagates ==
    /\ pc = "done"
    /\ call.op \in {"Get", "Update"}
    /\ \E i \in 1..Len(answers) : AnsweredWith(i, StatusNotFound)
    => IsErrNotFound(ret.err)

\* C9 as stated: Create and Query never return errNotFound.
C9_OnlyGetAndUpdate ==
    pc = "done" /\ call.op \in {"Create", "Query"} => ~IsErrNotFound(ret.err)

\* C9 amended: errNotFound is returned only when the last request of the
\* call, a GET of the issue or the PUT of Update, was answered not-found; so
\* Query never returns it, and Create returns it only for the GET that
\* follows a created POST, never for the POST.
C9_NotFoundOnlyFromIssueRequest ==
    pc = "done" /\ IsErrNotFound(ret.err) =>
        /\ call.op \in {"Get", "Update", "Create"}
        /\ Len(sent) >= 1
        /\ AnsweredWith(Len(sent), StatusNotFound)
        /\ IsGet(sent[Len(sent)]) \/ IsPut(sent[Len(sent)])
        /\ call.op = "Create" =>
              /\ Len(sent) = 2
              /\ AnsweredWith(1, StatusCreated)
              /\ IsGet(sent[2])

C9_Witness ==
    /\ Done("Create")
    /\ IsErrNotFound(ret.err)
    /\ Len(sent) = 2

\* C10: Get maps the status of its GET: not-found to errNotFound, any other
\* status but OK to an error carrying the status and the raw body, OK with a
\* decodable body to the normalized Ticket and no error; every error comes
\* with the zero Ticket.
C10_GetStatusMapping ==
    Done("Get") =>
        /\ ret.err # NilErr => ret.ticket = ZeroTicket
        /\ Len(sent) = 1 /\ ~answers[1].transport =>
              LET resp == answers[1]
              IN /\ resp.status = StatusNotFound => IsErrNotFound(ret.err)
                 /\ resp.status \notin {StatusNotFound, StatusOK} =>
                       /\ Len(ret.err) = 1
                       /\ ret.err[1].msg = "jira api error"
                       /\ ret.err[1].status = resp.status
                       /\ ret.err[1].body = resp.body
                       /\ ~ret.err[1].sentinel
                 /\ resp.status = StatusOK /\ Decodable(resp.body) =>
                       /\ ret.err = NilErr
                       /\ ret.ticket = convertJiraIssue(resp.body.issue, cfg.Source)
                       /\ ret.ticket.Key = resp.body.issue.Key
                       /\ ret.ticket.Metadata["source"] = <<StringValue(cfg.Source)>>

C10_Witness ==
    /\ Done("Get")
    /\ Len(sent) = 1
    /\ AnsweredWith(1, StatusInternalServerError)
    /\ answers[1].body = GarbageBody
    /\ ret.err = StatusErr("jira api error", answers[1])

\* the error of a response whose status the call does not accept: one layer
\* with the message, the numeric status and the raw body
IsStatusErr(err, msg, resp) ==
    /\ Len(err) = 1
    /\ err[1].msg = msg
    /\ err[1].status = resp.status
    /\ err[1].body = resp.body
    /\ ~err[1].sentinel

\* C11: a create POST answered with any status other than created ends
\* Create with an API error carrying that status and the raw body, the zero
\* Ticket, and no further request.
C11_CreateRejected ==
    call.op = "Create" /\ Len(sent) >= 1 /\ ~answers[1].transport
        /\ answers[1].status # StatusCreated =>
            /\ pc = "done"
            /\ Len(sent) = 1
            /\ IsStatusErr(ret.err, "jira api error", answers[1])
            /\ ret.ticket = ZeroTicket

C11_Witness ==
    /\ Done("Create")
    /\ Len(sent) = 1
    /\ AnsweredWith(1, StatusOK)
    /\ answers[1].body = CreatedBody("PROJ-1")
    /\ ret.err # NilErr

\* the transitions the upstream listed, once the read was answered OK with a
\* decodable body
TransitionsListed ==
    /\ call.op = "Update"
    /\ Len(sent) >= 1
    /\ IsTransitionRead(sent[1])
    /\ AnsweredWith(1, StatusOK)
    /\ Decodable(answers[1].body)

Listed == answers[1].body.transitions

Target == call.update.Status[1]

Matches(i) == EqualFold(Listed[i].To, Target)

HasMatch == \E i \in 1..Len(Listed) : Matches(i)

FirstMatch ==
    CHOOSE i \in 1..Len(Listed) : Matches(i) /\ \A j \in 1..(i - 1) : ~Matches(j)

NumTransitionWrites == Cardinality({i \in 1..Len(sent) : IsTransitionWrite(sent[i])})

\* C12: when an entry of the fetched list leads to the target status,
\* ignoring case, exactly one transition write is issued and it carries the
\* identifier of the first such entry, whatever the list holds (read once the
\* call has returned).
C12_FirstMatchWritten ==
    pc = "done" /\ TransitionsListed /\ HasMatch =>
        /\ Len(sent) >= 2
        /\ IsTransitionWrite(sent[2])
        /\ sent[2].transition = Listed[FirstMatch].ID
        /\ NumTransitionWrites = 1

\* C13: when no listed entry leads to the requested status, the transition
\* fails with an error naming that status and Update ends there, with no
\* transition write, no PUT and no re-fetch; Update ends the same way when the
\* transition write is answered with another status than no-content.
C13_TransitionFailureEndsUpdate ==
    /\ TransitionsListed /\ ~HasMatch =>
          /\ pc = "done"
          /\ Len(sent) = 1
          /\ Len(ret.err) = 2
          /\ ret.err[1].msg = "transition issue"
          /\ ret.err[2].msg = "no transition found to status"
          /\ ret.err[2].arg = Target
          /\ ret.ticket = ZeroTicket
    /\ call.op = "Update" /\ Len(sent) >= 2 /\ IsTransitionWrite(sent[2])
          /\ ~answers[2].transport /\ answers[2].status # StatusNoContent =>
          /\ pc = "done"
          /\ Len(sent) = 2
          /\ Len(ret.err) = 2
          /\ ret.err[1].msg = "transition issue"
          /\ IsStatusErr(Tail(ret.err), "transition error", answers[2])
          /\ ret.ticket = ZeroTicket

C13_Witness ==
    /\ Done("Update")
    /\ TransitionsListed
    /\ Len(Listed) = 3
    /\ ~HasMatch
    /\ NeedsPut(payload)
    /\ Len(sent) = 1

\* the PUT at position i failed: transport error, or any status other than
\* no-content
PutFailed(i) ==
    /\ IsPut(sent[i])
    /\ (answers[i].transport \/ answers[i].status # StatusNoContent)

\* C14: when the PUT fails after the transition write succeeded, Update
\* returns the error and sends nothing more: no second transition, no
\* re-fetch.
C14_NoRollback ==
    call.op = "Update" =>
        \A i \in 1..Len(sent) :
            PutFailed(i) =>
                /\ pc = "done"
                /\ i = Len(sent)
                /\ ret.err # NilErr
                /\ ret.ticket = ZeroTicket
                /\ call.update.Status # <<>> =>
                      /\ i = 3
                      /\ IsTransitionWrite(sent[2])
                      /\ AnsweredWith(2, StatusNoContent)
                      /\ NumTransitionWrites = 1

C14_Witness ==
    /\ Done("Update")
    /\ Len(sent) = 3
    /\ AnsweredWith(2, StatusNoContent)
    /\ PutFailed(3)
    /\ AnsweredWith(3, StatusInternalServerError)

\* the extra-fields dictionary of the running Update supplies key k
ExtraHas(k) == call.update.Fields # <<>> /\ call.update.Fields[1][k] # <<>>

ExtraOf(k) == call.update.Fields[1][k]

NumPuts == Cardinality({i \in 1..Len(sent) : IsPut(sent[i])})

OnlyEmptyAssignees(in) ==
    /\ in.Assignees = << <<>> >>
    /\ in.Title = <<>>
    /\ in.Description = <<>>
    /\ in.Status = <<>>
    /\ in.Fields = <<>>

\* C15: a present but empty assignee list adds no assignee entry to the
\* payload (the entry is what the extra fields supply, if anything); an
\* Update whose only non-nil field is the empty list sends no PUT, only the
\* re-fetch GET.
C15_EmptyAssigneesNoOp ==
    call.op = "Update" /\ call.update.Assignees = << <<>> >> =>
        /\ payload["assignee"] = (IF ExtraHas("assignee") THEN ExtraOf("assignee") ELSE <<>>)
        /\ OnlyEmptyAssignees(call.update) =>
              /\ NumFields(payload) = 0
              /\ NumPuts = 0
              /\ Len(sent) <= 1
              /\ \A i \in 1..Len(sent) : sent[i] = GetRequest(call.id)
              /\ Succeeded("Update") => Len(sent) = 1

C15_Witness ==
    /\ Succeeded("Update")
    /\ OnlyEmptyAssignees(call.update)
    /\ sent = <<GetRequest("PROJ-1")>>

ManyAssignees == call.update.Assignees # <<>> /\ Len(call.update.Assignees[1]) >= 1

FirstAssignee == <<Value("{accountId}", call.update.Assignees[1][1], <<>>)>>

\* the assignees after the first
DroppedAssignees ==
    {call.update.Assignees[1][j] : j \in 2..Len(call.update.Assignees[1])}

\* no request of the call mentions one of the dropped assignees
NoDroppedAssigneeSent ==
    \A i \in 1..Len(sent) : \A k \in FieldKeys :
        sent[i].fields[k] # <<>> =>
            /\ sent[i].fields[k][1].s \notin DroppedAssignees
            /\ \A e \in 1..Len(sent[i].fields[k][1].l) :
                  sent[i].fields[k][1].l[e].s \notin DroppedAssignees

\* C16 as stated: with n >= 1 assignees the payload holds exactly one
\* assignee object, whose accountId is the first entry, and the other entries
\* appear in no request.
C16_FirstAssigneeOnly ==
    call.op = "Update" /\ ManyAssignees =>
        /\ payload["assignee"] = FirstAssignee
        /\ NoDroppedAssigneeSent

\* C16 amended: the same, unless the extra-fields dictionary has its own
\* assignee key, whose value then replaces the object built from the list.
C16_FirstAssigneeUnlessExtra ==
    call.op = "Update" /\ ManyAssignees =>
        /\ payload["assignee"] =
              (IF ExtraHas("assignee") THEN ExtraOf("assignee") ELSE FirstAssignee)
        /\ Len(payload["assignee"]) = 1
        /\ NoDroppedAssigneeSent
        /\ \A i \in 1..Len(sent) : IsPut(sent[i]) => sent[i].fields = payload

C16_Witness ==
    /\ Succeeded("Update")
    /\ ManyAssignees
    /\ Len(call.update.Assignees[1]) = 2
    /\ ~ExtraHas("assignee")
    /\ NumPuts = 1
    /\ payload["assignee"] = <<Value("{accountId}", "alice", <<>>)>>

\* C17 as stated: the payload has a title or description entry exactly when
\* that input field is non-nil, never a status entry, and Update sends exactly
\* one PUT when the payload has an entry and none when it has not.
C17_PayloadAndPut ==
    Done("Update") =>
        /\ (payload["summary"] # <<>>) <=> (call.update.Title # <<>>)
        /\ (payload["description"] # <<>>) <=> (call.update.Description # <<>>)
        /\ payload["status"] = <<>>
        /\ NumPuts = (IF NumFields(payload) > 0 THEN 1 ELSE 0)

\* C17 amended: the title and the description put their entry in the payload
\* exactly when non-nil (an empty string included) and the requested status
\* puts none, but an extra field named summary, description or status supplies
\* that entry whatever the input field; Update sends at most one PUT, none
\* when the payload has no entry and exactly one, carrying the payload, in
\* every Update with a non-empty payload that returns without error.
C17_PayloadAndPutOnSuccess ==
    call.op = "Update" =>
        /\ payload["summary"] =
              (IF ExtraHas("summary") THEN ExtraOf("summary")
               ELSE IF call.update.Title # <<>>
               THEN <<StringValue(call.update.Title[1])>> ELSE <<>>)
        /\ payload["description"] =
              (IF ExtraHas("description") THEN ExtraOf("description")
               ELSE IF call.update.Description # <<>>
               THEN <<Document(call.update.Description[1])>> ELSE <<>>)
        /\ payload["status"] = (IF ExtraHas("status") THEN ExtraOf("status") ELSE <<>>)
        /\ NumPuts <= 1
        /\ NumFields(payload) = 0 => NumPuts = 0
        /\ \A i \in 1..Len(sent) : IsPut(sent[i]) => sent[i] = PutRequest(call.id, payload)
        /\ Succeeded("Update") /\ NumFields(payload) > 0 => NumPuts = 1

C17_Witness ==
    /\ Succeeded("Update")
    /\ call.update.Title = <<"">>
    /\ call.update.Description = <<>>
    /\ call.update.Status # <<>>
    /\ payload["summary"] = <<StringValue("")>>
    /\ NumFields(payload) = 1
    /\ NumPuts = 1

IsSearch(r) == r.method = "POST" /\ r.path = "/rest/api/3/search/jql"

\* C18: the result cap of Query's search request is the query's limit when
\* that is positive and 50 when it is zero or negative.
C18_ResultCap ==
    call.op = "Query" /\ Len(sent) >= 1 =>
        /\ Len(sent) = 1
        /\ IsSearch(sent[1])
        /\ call.query.Limit > 0 => sent[1].maxResults = call.query.Limit
        /\ call.query.Limit <= 0 => sent[1].maxResults = 50

C18_Witness ==
    /\ Done("Query")
    /\ call.query.Limit = 0
    /\ Len(sent) = 1
    /\ sent[1].maxResults = 50

\* C19: a successful Query returns one ticket per item of the answered issue
\* list, in the answered order, ticket i being the normalization of item i,
\* also when the list is longer than the cap that was sent.
C19_OneTicketPerItem ==
    Succeeded("Query") =>
        /\ Len(ret.tickets) = 1
        /\ Len(ret.tickets[1]) = Len(answers[1].body.issues)
        /\ \A i \in 1..Len(answers[1].body.issues) :
              ret.tickets[1][i] = convertJiraIssue(answers[1].body.issues[i], cfg.Source)

C19_Witness ==
    /\ Succeeded("Query")
    /\ sent[1].maxResults = 2
    /\ Len(answers[1].body.issues) = 3
    /\ Len(ret.tickets[1]) = 3
    /\ ret.tickets[1][1].Key = "PROJ-1"
    /\ ret.tickets[1][2].Key = ""
    /\ ret.tickets[1][3].Key = "PROJ-1"

----------------------------------------------------------------------------
(* Properties of the issue normalisation *)

\* every text node of the description, empty ones included, in document order
RECURSIVE Flatten(_)
Flatten(blocks) ==
    IF blocks = <<>> THEN <<>> ELSE Head(blocks) \o Flatten(Tail(blocks))

Nodes == Flatten(inIssue.Description)

NonEmptyNodes == {i \in 1..Len(Nodes) : Nodes[i] # <<>>}

\* the room the nodes of S take in the description, one separator each
RECURSIVE Room(_)
Room(S) ==
    IF S = {} THEN 0
    ELSE LET i == CHOOSE j \in S : TRUE
         IN Len(Nodes[i]) + 1 + Room(S \ {i})

\* where the text of node i starts in the description
Offset(i) == Room({j \in NonEmptyNodes : j < i})

\* C20: the ticket description is the non-empty texts of the issue's
\* description in document order, each followed by exactly one space except
\* the last; empty nodes add neither text nor space, and a description
\* without a non-empty node gives the empty string.
C20_DescriptionJoin ==
    npc = "converted" =>
        /\ NonEmptyNodes = {} => outTicket.Description = <<>>
        /\ NonEmptyNodes # {} => Len(outTicket.Description) = Room(NonEmptyNodes) - 1
        /\ \A i \in NonEmptyNodes :
              /\ Offset(i) + Len(Nodes[i]) <= Len(outTicket.Description)
              /\ SubSeq(outTicket.Description, Offset(i) + 1, Offset(i) + Len(Nodes[i])) = Nodes[i]
              /\ Offset(i) + Len(Nodes[i]) < Len(outTicket.Description) =>
                    outTicket.Description[Offset(i) + Len(Nodes[i]) + 1] = " "

C20_Witness ==
    /\ npc = "converted"
    /\ inIssue.Description = << << <<"a">>, <<>> >>, << <<"b", " ">>, <<"a">> >> >>
    /\ outTicket.Description = <<"a", " ", "b", " ", " ", "a">>

Converted == npc = "converted"

\* the strings of a metadata list value, in order
NamesOf(v) == [i \in 1..Len(v.l) |-> v.l[i].s]

Md(k) == outTicket.Metadata[k]

C22_AssigneeReporter ==
    /\ npc = "input" => ENABLED ConvertIssue
    /\ Converted =>
        /\ Len(outTicket.Assignees) <= 1
        /\ inIssue.Assignee # <<>> =>
              /\ outTicket.Assignees = <<inIssue.Assignee[1].AccountID>>
              /\ Md("assignee_name") = <<StringValue(inIssue.Assignee[1].DisplayName)>>
        /\ inIssue.Assignee = <<>> =>
              /\ outTicket.Assignees = <<>>
              /\ Md("assignee_name") = <<>>
        /\ inIssue.Reporter # <<>> =>
              /\ outTicket.Reporter = inIssue.Reporter[1].AccountID
              /\ Md("reporter_name") = <<StringValue(inIssue.Reporter[1].DisplayName)>>
        /\ inIssue.Reporter = <<>> =>
              /\ outTicket.Reporter = ""
              /\ Md("reporter_name") = <<>>

C22_Witness ==
    /\ Converted
    /\ inIssue.Assignee = <<>>
    /\ inIssue.Reporter # <<>>
    /\ outTicket.Assignees = <<>>
    /\ outTicket.Reporter = "bob"
    /\ Md("assignee_name") = <<>>

----------------------------------------------------------------------------
(* Properties of the construction *)

NewReturned == cpc = "returned"

KeyAbsent(k) == rawCfg[k].t = "absent"

\* C23: New returns an error and no provider whenever the token, the email,
\* the project key or the base URL is absent from the map, and returns a
\* provider only when all of them were supplied.
C23_AllFourMandatory ==
    NewReturned =>
        /\ (\E k \in {"apiToken", "email", "projectKey", "apiURL"} : KeyAbsent(k)) =>
              newRet.provider = <<>> /\ newRet.err # ""
        /\ newRet.provider # <<>> =>
              \A k \in {"apiToken", "email", "projectKey", "apiURL"} : ~KeyAbsent(k)

\* key k is absent, not a string, or the empty string
Defaulted(k) == rawCfg[k].t # "string" \/ rawCfg[k].s = <<>>

\* t is s without its leading and trailing spaces
IsTrimOf(t, s) ==
    \E i \in 0..Len(s) : \E j \in i..Len(s) :
        /\ t = SubSeq(s, i + 1, j)
        /\ \A k \in 1..i : s[k] = SP
        /\ \A k \in (j + 1)..Len(s) : s[k] = SP
        /\ t # <<>> => t[1] # SP /\ t[Len(t)] # SP

\* C24 as stated: source, default issue type and base URL are their default
\* when the key is absent, not a string or empty, and the supplied value
\* otherwise; token and project key are empty when absent.
C24_DefaultsOrSupplied ==
    NewReturned =>
        /\ parsed.Source =
              (IF Defaulted("source") THEN <<"jira">> ELSE rawCfg["source"].s)
        /\ parsed.DefaultIssueType =
              (IF Defaulted("defaultIssueType") THEN <<"Task">>
               ELSE rawCfg["defaultIssueType"].s)
        /\ parsed.APIURL =
              (IF Defaulted("apiURL") THEN <<"https://your-domain.atlassian.net">>
               ELSE rawCfg["apiURL"].s)
        /\ KeyAbsent("apiToken") => parsed.APIToken = <<>>
        /\ KeyAbsent("projectKey") => parsed.ProjectKey = <<>>

\* C24 amended: the same, except that a supplied base URL is taken with its
\* surrounding whitespace trimmed (a blank one becomes the empty string);
\* source and default issue type are taken untrimmed; token and project key
\* are the trimmed string, and empty when absent or not a string.
C24_DefaultsOrTrimmed ==
    NewReturned =>
        /\ parsed.Source =
              (IF Defaulted("source") THEN <<"jira">> ELSE rawCfg["source"].s)
        /\ parsed.DefaultIssueType =
              (IF Defaulted("defaultIssueType") THEN <<"Task">>
               ELSE rawCfg["defaultIssueType"].s)
        /\ Defaulted("apiURL") => parsed.APIURL = <<"https://your-domain.atlassian.net">>
        /\ ~Defaulted("apiURL") => IsTrimOf(parsed.APIURL, rawCfg["apiURL"].s)
        /\ \A k \in {"apiToken", "projectKey"} :
              LET out == IF k = "apiToken" THEN parsed.APIToken ELSE parsed.ProjectKey
              IN /\ rawCfg[k].t # "string" => out = <<>>
                 /\ rawCfg[k].t = "string" => IsTrimOf(out, rawCfg[k].s)

C24_Witness ==
    /\ NewReturned
    /\ rawCfg["source"] = Str(<<>>)
    /\ rawCfg["defaultIssueType"] = Str(<<SP, "x">>)
    /\ rawCfg["apiURL"] = Str(<<SP, "x", SP>>)
    /\ parsed.Source = <<"jira">>
    /\ parsed.DefaultIssueType = <<SP, "x">>
    /\ parsed.APIURL = <<"x">>

----------------------------------------------------------------------------
(* Properties of the plugin loop *)

\* the step that serves the decoded request
Serving == ppc = "dispatch" /\ ppc' = "decode"

LastWritten == written[Len(written)]

ErrorOnly(f) == f.result = <<>> /\ f.error # <<>>

\* C25: the provider is constructed successfully at most once: once set it
\* never changes and serves every later request whatever its config; a request
\* whose construction fails leaves it unset and gets New's error, and the
\* next request constructs from its own config.
C25_SingleConstruction ==
    [][/\ provider # <<>> => provider' = provider
       /\ Serving =>
            /\ Len(written') = Len(written) + 1
            /\ provider # <<>> => LastWritten'.by = provider
            /\ provider = <<>> /\ New(rpcReq.config).err # "" =>
                  /\ provider' = <<>>
                  /\ LastWritten'.error = <<New(rpcReq.config).err>>
                  /\ LastWritten'.result = <<>>
            /\ provider = <<>> /\ New(rpcReq.config).err = "" =>
                  /\ provider' = <<parseConfig(rpcReq.config)>>
                  /\ LastWritten'.by = provider']_vars

C25_Witness ==
    /\ ppc = "decode"
    /\ decoded = 3
    /\ Len(written) = 3
    /\ written[1].error = <<"jira apiToken is required">>
    /\ provider = <<parseConfig(GoodCfg("a"))>>
    /\ written[2].by = provider
    /\ rpcReq.config = GoodCfg("b")
    /\ written[3].by = provider
    /\ written[3].result # <<>>

\* C26: every response frame written carries a result or an error, never
\* both and never neither.
C26_ResultXorError ==
    \A i \in 1..Len(written) :
        (written[i].result # <<>>) # (written[i].error # <<>>)

C26_Witness ==
    /\ Len(written) = 2
    /\ written[1].result = <<"tickets0">>
    /\ written[1].error = <<>>
    /\ written[2].result = <<>>
    /\ written[2].error = <<"jira api error">>

\* the responses written so far answer the decoded requests one for one
LoopInv ==
    /\ ppc = "decode" => Len(written) = decoded
    /\ ppc = "dispatch" => Len(written) = decoded - 1
    /\ ppc = "exited" => Len(written) \in {decoded, decoded + 1}
    /\ \A i \in 1..Len(written) : i <= decoded => written[i].n = i
    /\ Len(written) = decoded + 1 =>
          /\ ppc = "exited"
          /\ ErrorOnly(written[decoded + 1])
          /\ written[decoded + 1].n = 0

LoopStep ==
    /\ ppc # "exited"
    /\ ppc = "decode" /\ ppc' = "dispatch" =>
          /\ decoded' = decoded + 1
          /\ written' = written
    /\ ppc = "decode" /\ ppc' = "exited" =>
          /\ decoded' = decoded
          /\ \/ written' = written
             \/ /\ Len(written') = Len(written) + 1
                /\ SubSeq(written', 1, Len(written)) = written
                /\ ErrorOnly(LastWritten')
    /\ ppc = "dispatch" =>
          /\ ppc' = "decode"
          /\ decoded' = decoded
          /\ Len(written') = Len(written) + 1
          /\ SubSeq(written', 1, Len(written)) = written
          /\ LastWritten'.n = decoded
          /\ \/ rpcReq.method \notin {"ticket.query", "ticket.get", "ticket.create",
                                     "ticket.update"}
             \/ ~rpcReq.payloadOK
             \/ ensureProvider(provider, rpcReq.config).err # ""
             => ErrorOnly(LastWritten')

\* C29: the loop writes one response for every request it decodes before it
\* reads the next, in request order; an unknown method, an undecodable
\* payload or a failed construction gives an error response and the loop goes
\* on; the end of the stream ends the loop with no response; a frame that
\* cannot be decoded gives one error response and ends the loop, and nothing
\* is read or written after the loop ended.
C29_OneResponsePerRequest == []LoopInv /\ [][LoopStep]_vars

C29_Witness ==
    /\ ppc = "exited"
    /\ decoded = 2
    /\ Len(written) = 3
    /\ written[1].error = <<"unknown method">>
    /\ written[2].result = <<"ticket">>
    /\ ErrorOnly(written[3])
    /\ written[3].n = 0

----------------------------------------------------------------------------
(* Properties of the provider calls: retries and extra fields *)

\* the status the code accepts for a request
ExpectedStatus(r) ==
    IF IsPost(r) THEN 201
    ELSE IF IsPut(r) \/ IsTransitionWrite(r) THEN 204
    ELSE 200

\* the i-th request failed: transport error, unexpected status, or a body
\* the code decodes and cannot
FailedStep(i) ==
    \/ answers[i].transport
    \/ answers[i].status # ExpectedStatus(sent[i])
    \/ /\ ~IsPut(sent[i])
       /\ ~IsTransitionWrite(sent[i])
       /\ ~Decodable(answers[i].body)

MostRequests ==
    IF call.op = "Create" THEN 2 ELSE IF call.op = "Update" THEN 4 ELSE 1

NoRetry ==
    /\ \A i \in 1..Len(sent) : \A j \in 1..Len(sent) : i < j => sent[i] # sent[j]
    /\ \A i \in 1..Len(sent) :
          FailedStep(i) => i = Len(sent) /\ pc = "done" /\ ret.err # NilErr
    /\ Len(sent) <= MostRequests

\* C27 as stated: no request is sent twice, the first failing step ends the
\* call with an error, Get and Query send exactly one request, Create at most
\* two and Update at most four.
C27_NoRetryExactlyOne ==
    call.op \in {"Create", "Get", "Query", "Update"} =>
        /\ NoRetry
        /\ Done("Get") \/ Done("Query") => Len(sent) = 1

\* C27 amended: the same, Get and Query sending at most one request, and
\* exactly one whenever the request could be built from the base URL and
\* the id.
C27_NoRetryAtMostOne ==
    call.op \in {"Create", "Get", "Query", "Update"} =>
        /\ NoRetry
        /\ Done("Get") /\ ValidURL(cfg.APIURL, call.id) => Len(sent) = 1
        /\ Done("Query") /\ ValidURL(cfg.APIURL, "") => Len(sent) = 1
        /\ (Done("Get") \/ Done("Query")) /\ Len(sent) = 0 => ret.err # NilErr

C27_Witness ==
    /\ Done("Update")
    /\ Len(sent) = 4
    /\ IsTransitionRead(sent[1])
    /\ IsTransitionWrite(sent[2])
    /\ IsPut(sent[3])
    /\ IsGet(sent[4])
    /\ FailedStep(4)
    /\ ret.err # NilErr

\* the extra-fields dictionary of the running Create or Update, if any
Extras ==
    IF call.op = "Create" THEN call.create.Fields
    ELSE IF call.op = "Update" THEN call.update.Fields
    ELSE <<>>

\* the payload the same call builds when it has no extra fields
BasePayload ==
    IF call.op = "Create"
    THEN createFields([call.create EXCEPT !.Fields = <<>>], cfg)
    ELSE updateFields([call.update EXCEPT !.Fields = <<>>])

Recognized == {"priority", "labels", "components"}

\* every key but the recognized ones is copied as it is and wins
OthersCopied ==
    \A k \in FieldKeys \ Recognized :
        payload[k] = IF Extras[1][k] # <<>> THEN Extras[1][k] ELSE BasePayload[k]

\* priority gives an entry for a non-empty string only, the object {name}
PriorityRule ==
    LET pr == Extras[1]["priority"]
    IN IF pr # <<>> /\ pr[1].t = "string" /\ pr[1].s # ""
       THEN payload["priority"] = <<Value("{name}", pr[1].s, <<>>)>>
       ELSE payload["priority"] = <<>>

\* C28 as stated: other keys are copied verbatim and overwrite; priority,
\* labels and components are never copied verbatim; a priority that is not
\* a non-empty string gives no priority entry.
C28_ExtrasNeverVerbatim ==
    Extras # <<>> =>
        /\ OthersCopied
        /\ PriorityRule
        /\ \A k \in Recognized : Extras[1][k] # <<>> => payload[k] # Extras[1][k]

\* C28 amended: the same, the recognized keys never going through that
\* copy: priority and components are rebuilt as name objects, labels and
\* components of a type that is not a list give no entry, and only a
\* pre-typed string list of labels is placed as it was given.
C28_ExtrasCopiedOrRebuilt ==
    Extras # <<>> =>
        /\ OthersCopied
        /\ PriorityRule
        /\ \A k \in {"priority", "components"} :
              Extras[1][k] # <<>> => payload[k] # Extras[1][k]
        /\ \A k \in {"labels", "components"} :
              Extras[1][k] # <<>> /\ Extras[1][k][1].t \notin {"[]string", "[]any"} =>
                  payload[k] = <<>>
        /\ Extras[1]["labels"] # <<>> /\ payload["labels"] = Extras[1]["labels"] =>
              Extras[1]["labels"][1].t = "[]string"

C28_Witness ==
    /\ Succeeded("Create")
    /\ Extras # <<>>
    /\ Extras[1]["project"] = <<Value("{key}", "OTHER", <<>>)>>
    /\ payload["project"] = Extras[1]["project"]
    /\ payload["project"] # BasePayload["project"]
    /\ payload["issuetype"] = <<Value("{name}", "Bug", <<>>)>>
    /\ sent[1].fields = payload

\* the list given under key k, when it is a list
GivenList(k) == Extras[1][k][1].l

IsList(k) ==
    /\ Extras # <<>>
    /\ Extras[1][k] # <<>>
    /\ Extras[1][k][1].t \in {"[]string", "[]any"}

\* Create places a non-empty list only, Update every list
Placed(k) == call.op = "Update" \/ Len(GivenList(k)) > 0

\* C30: a list of labels or components, untyped or pre-typed, is placed
\* with the length and the order of the input: a string label as it is, a
\* non-string label as the empty string, a string component as the object
\* {name: value}; a pre-typed list gives what the untyped list of the same
\* strings gives.
C30_ListCoercion ==
    call.op \in {"Create", "Update"} =>
        /\ IsList("labels") =>
              IF Placed("labels")
              THEN /\ Len(payload["labels"]) = 1
                   /\ payload["labels"][1].t = "[]string"
                   /\ Len(payload["labels"][1].l) = Len(GivenList("labels"))
                   /\ \A i \in 1..Len(GivenList("labels")) :
                         payload["labels"][1].l[i] =
                            [t |-> "string",
                             s |-> IF GivenList("labels")[i].t = "string"
                                   THEN GivenList("labels")[i].s ELSE "",
                             i |-> ""]
              ELSE payload["labels"] = <<>>
        /\ IsList("components") =>
              IF Placed("components")
              THEN /\ Len(payload["components"]) = 1
                   /\ Len(payload["components"][1].l) = Len(GivenList("components"))
                   /\ \A i \in 1..Len(GivenList("components")) :
                         GivenList("components")[i].t = "string" =>
                            payload["components"][1].l[i] =
                               [t |-> "{name}", s |-> GivenList("components")[i].s,
                                i |-> ""]
              ELSE payload["components"] = <<>>

C30_Witness ==
    /\ Succeeded("Create")
    /\ IsList("labels")
    /\ Extras[1]["labels"][1].t = "[]any"
    /\ GivenList("labels")[2].t = "number"
    /\ payload["labels"][1].l =
          <<[t |-> "string", s |-> "x", i |-> ""], [t |-> "string", s |-> "", i |-> ""]>>
    /\ sent[1].fields = payload

====
